---- MODULE Spec2Model ----
(***************************************************************************)
(* flockd: a key/value store whose records are files of a table directory. *)
(* The model follows src/flockd.go at the granularity of its system calls: *)
(* the table directory maps names to inodes, a file handle and a flock      *)
(* refer to an inode (not to a name), and every operation is a sequence of  *)
(* steps that other operations may interleave with.                         *)
(*                                                                         *)
(* github.com/gofrs/flock, which flockd.go calls: NewFlock(path) only       *)
(* records the path; the first TryLock/TryRLock opens the path with         *)
(* O_CREATE|O_RDONLY (so it creates an empty file when there is none) and   *)
(* keeps that handle for all retries; the lock is a flock(2) lock, held on  *)
(* the open file, hence on the inode the path named when it was opened.     *)
(***************************************************************************)
EXTENDS Integers, Sequences, FiniteSets, TLC

\* ------------------------------------------------------------------ bounds
NumProcs == 2      \* concurrent callers of the table's operations
NumKeys == 2       \* keys in use
NumValues == 2     \* distinct values written
MaxTries == 2      \* failed poll attempts before lockFile's context expires
MaxInodes == 8     \* inodes alive at once (linked or still open)
MaxPolls == 210    \* attempts of one lockFile call that are followed
NumRecords == 4    \* record files of the table that ForEach reads
readNum == 2       \* entries asked of one Readdir (1024 in the source)

Procs == 1..NumProcs
Keys == 1..NumKeys
Values == 1..NumValues
Inodes == 1..MaxInodes

\* Keys are strings. The keys in use are "a", "aa", ... and, the last of
\* them, "a*"; KeyIds also names two strings that hold the path separator,
\* "a/b" and "/". TmpKey(p) is the key that ForEach makes of the name of
\* caller p's temporary file when that name ends in recExt: "a1", "a11", ...
PathSeparator == "/"
KeyIds == 1..(NumKeys + 2)
TmpKey(p) == NumKeys + 2 + p
\* The random part ioutil.TempFile puts in the name it makes for caller p.
Random(p) == [i \in 1..p |-> "1"]
KeyText(k) ==
  IF k \in Keys
  THEN IF k = NumKeys THEN <<"a", "*">> ELSE [i \in 1..k |-> "a"]
  ELSE IF k = NumKeys + 1 THEN <<"a", PathSeparator, "b">>
  ELSE IF k = NumKeys + 2 THEN <<PathSeparator>>
  ELSE <<"a">> \o Random(k - (NumKeys + 2))

\* strings.ContainsRune(s, c).
ContainsRune(s, c) == \E i \in 1..Len(s) : s[i] = c

\* A value is written to the temporary file in two chunks: Full(v) is the
\* complete content, <<v>> a partial one, <<>> an empty file.
Full(v) == <<v, v>>
\* The abstract value of a key that has no record file.
NoFile == <<0>>
\* What stands for the content of an inode that is a directory.
DirMark == <<-1>>

\* Rec(k): the record file of key k, key+recExt. Tmp(p): the temporary file
\* ioutil.TempFile creates for caller p (a name no other caller uses); it
\* is the record file of the key TmpKey(p).
Tmp(p) == <<"tmp", p>>
Rec(k) == IF k <= NumKeys + 2 THEN <<"kv", k>> ELSE Tmp(k - (NumKeys + 2))
Names == {Rec(k) : k \in Keys} \cup {Tmp(p) : p \in Procs}

VARIABLES
  dir,    \* table directory: name -> inode, 0 when the name does not exist
  data,   \* inode -> content
  ext,    \* the lock another party (a test, a sync tool) holds: [ino, mode]
  proc,   \* per caller: its operation, its position in it, handles and locks
  res,    \* the result a call has just returned, NoRes after any other step
  fe,     \* a ForEach call and the table directory it reads
  db,     \* the database: its root, its directories, its cache of tables
  lf      \* a lockFile call that finds the lock busy: its clock and polls

vars == <<dir, data, ext, proc, res, fe, db, lf>>

\* ------------------------------------------------------------- file system
\* The file system and the callers as one value; an action builds the next
\* one from Cur and commits it.
Cur == [dir |-> dir, data |-> data, ext |-> ext, proc |-> proc]

\* Every reference to an inode, in a fixed order: the directory entries,
\* then each caller's fh, flock handle and temporary file's flock handle,
\* then the other party's.
RefSeq(st) ==
  [k \in 1..NumKeys |-> st.dir[Rec(k)]]
  \o [p \in 1..NumProcs |-> st.dir[Tmp(p)]]
  \o [j \in 1..(3 * NumProcs) |->
        LET r == st.proc[((j - 1) \div 3) + 1] IN
        CASE (j - 1) % 3 = 0 -> r.fh
          [] (j - 1) % 3 = 1 -> r.lk
          [] OTHER -> r.tl]
  \o <<st.ext.ino>>

\* The distinct inodes of rs in the order of their first reference.
Order(rs) ==
  LET first == SelectSeq([j \in 1..Len(rs) |-> j],
                         LAMBDA j : /\ rs[j] # 0
                                    /\ \A l \in 1..(j - 1) : rs[l] # rs[j]) IN
  [n \in 1..Len(first) |-> rs[first[n]]]

\* The renumbering that takes the n-th inode of ord to n.
Renumber(st, ord) ==
  LET ren == [i \in Inodes \cup {0} |->
                IF \E j \in 1..Len(ord) : ord[j] = i
                THEN CHOOSE j \in 1..Len(ord) : ord[j] = i ELSE 0] IN
  [dir |-> [n \in Names |-> ren[st.dir[n]]],
   data |-> [n \in Inodes |-> IF n <= Len(ord) THEN st.data[ord[n]] ELSE <<>>],
   ext |-> [st.ext EXCEPT !.ino = ren[@]],
   proc |-> [p \in Procs |-> [st.proc[p] EXCEPT !.fh = ren[@], !.lk = ren[@],
                                                !.tl = ren[@]]]]


Used(i) ==
  \/ \E n \in Names : dir[n] = i
  \/ \E p \in Procs : proc[p].fh = i \/ proc[p].lk = i \/ proc[p].tl = i
  \/ ext.ino = i

FreeInodes == {i \in Inodes : ~Used(i)}

\* The inode a create gets: the lowest free one.
NewIno == CHOOSE i \in FreeInodes : \A j \in FreeInodes : i <= j

\* The content a reader of key k's record file would find, NoFile when absent.
Abs(k) == IF dir[Rec(k)] = 0 THEN NoFile ELSE data[dir[Rec(k)]]

\* The result handed to caller p of o(k, v): the error e (or "ok") and, for
\* a successful Get, the value g; imm: the call returned at its first step.
Result(p, o, k, v, e, g, i) ==
  [p |-> p, op |-> o, key |-> k, val |-> v, ret |-> e, got |-> g, imm |-> i]
\* The call returns e (and g) after the steps recorded in r.
Ret(p, r, e, g) == Result(p, r.op, r.key, r.val, e, g, FALSE)
\* NoRes: the step returns from no call.
NoRes == Result(0, "none", 1, 0, "none", <<>>, FALSE)

\* The next state is st, and the step returns r to a caller (or NoRes).
\* Inode numbers are invisible to the program, so states are kept up to a
\* renumbering: live inodes are numbered in the order of RefSeq. An inode
\* with no link and no open handle is freed and its content is gone.
Commit(st, r) ==
  \E s \in {st} : \E ord \in {Order(RefSeq(s))} : \E n \in {Renumber(s, ord)} :
  /\ dir' = n.dir
  /\ data' = n.data
  /\ ext' = n.ext
  /\ proc' = n.proc
  /\ res' = r
  /\ fe' = fe
  /\ db' = db
  /\ lf' = lf

\* ------------------------------------------------------------------- locks
ExHeld(i) ==
  \/ \E p \in Procs : proc[p].lk = i /\ proc[p].lkm = "ex"
  \/ \E p \in Procs : proc[p].tl = i /\ proc[p].tlm
  \/ ext.ino = i /\ ext.mode = "ex"

ShHeld(i) ==
  \/ \E p \in Procs : proc[p].lk = i /\ proc[p].lkm = "sh"
  \/ ext.ino = i /\ ext.mode = "sh"

\* A flock whose exclusive lock does not wait for the shared ones.
CanLockOverShared(i, m) == ~ExHeld(i)

\* One lock for the whole table: a lock on any file stands in the way.
CanLockTable(i, m) ==
  \A j \in Inodes :
    IF m = "ex" THEN ~ExHeld(j) /\ ~ShHeld(j) ELSE ~ExHeld(j)

\* flock(2), LOCK_NB: an exclusive lock needs the inode unlocked, a shared
\* lock needs it not exclusively locked.
CanLock(i, m) == IF m = "ex" THEN ~ExHeld(i) /\ ~ShHeld(i) ELSE ~ExHeld(i)

\* ------------------------------------------------------------- the callers
Idle == [pc |-> "idle", op |-> "none", key |-> 1, val |-> 0, fh |-> 0,
         lk |-> 0, lkm |-> "none", tl |-> 0, tlm |-> FALSE, tries |-> 0,
         ret |-> "none"]

\* A call of operation o by p: it starts with what p holds (nothing, when
\* every earlier call released what it took).
NewOp(p, o, k, v) == [proc[p] EXCEPT !.op = o, !.key = k, !.val = v]

\* The caller's record once its call has returned.
Return(r) == [r EXCEPT !.pc = "idle", !.op = "none", !.key = 1, !.val = 0,
                       !.tries = 0, !.ret = "none"]

\* The lock mode an operation asks lockFile for on the record file.
LockMode(o) == IF o = "Get" THEN "sh" ELSE "ex"

\* No ForEach is called.
NoEach == [pc |-> "none", tbl |-> <<>>, locked |-> {}, pos |-> 0,
           files |-> <<>>, err |-> "nil", calls |-> <<>>, ret |-> "none",
           fault |-> "none", dh |-> FALSE, seen |-> {}, key |-> 0]

\* A database whose tables are not looked at.
NoDB == [root |-> <<>>, timeout |-> 1, dirs |-> {}, files |-> {}, denied |-> {},
         tables |-> {}, owner |-> {},
         call |-> [p \in Procs |-> [pc |-> "idle", name |-> <<>>,
                                    tbl |-> [name |-> <<>>, path |-> <<>>,
                                             timeout |-> 0]]],
         got |-> [p |-> 0, op |-> "none", name |-> <<>>, arg |-> 0,
                  err |-> "nil",
                  tbl |-> [name |-> <<>>, path |-> <<>>, timeout |-> 0],
                  by |-> 0],
         recs |-> {}, found |-> <<>>, err |-> "nil", listed |-> FALSE]

\* No lockFile call is timed.
NoLF == [pc |-> "none", timeout |-> 0, delay |-> 0, now |-> 0, tries |-> 0]

TypeOK ==
  /\ dir \in [Names -> Inodes \cup {0}]
  /\ ext \in [ino : Inodes \cup {0}, mode : {"none", "sh", "ex"}]
  /\ \A p \in Procs : proc[p].pc \in {"idle", "lockopen", "locktry", "read",
        "tmpfile", "tlocktry", "write", "rename", "remove", "release"}

Init ==
  /\ proc = [p \in Procs |-> Idle]
  /\ dir = [n \in Names |-> 0]
  /\ data = [i \in Inodes |-> <<>>]
  /\ ext = [ino |-> 0, mode |-> "none"]
  /\ res = NoRes
  /\ lf = NoLF
  /\ fe = NoEach
  /\ db = NoDB

\* ------------------------------------------------------ deferred clean-up
CloseFh(r) == [r EXCEPT !.fh = 0]                       \* fh.Close()
Unlock(r) == [r EXCEPT !.lk = 0, !.lkm = "none"]        \* lock.Unlock()
UnlockTmp(r) == [r EXCEPT !.tl = 0, !.tlm = FALSE]      \* tmp.lock.Unlock()
\* A lockFile that timed out drops its flock, which never held the lock.
DropLock(r) == [r EXCEPT !.lk = 0]

\* The operation o of p returns os.ErrInvalid for a key with a path
\* separator, before it touches the table.
Reject(p, o, k, v) ==
  Commit(Cur, Result(p, o, k, v, "invalid", <<>>, TRUE))

\* info.IsDir() for the inode i.
IsDir(i) == i # 0 /\ data[i] = DirMark

\* What opening a directory with O_CREATE|O_RDONLY, as flock does, gives:
\* the error EISDIR (Linux), or a handle (systems that let it through).
DirOpens == {"EISDIR", "handle"}

\* ---------------------------------------------------------------- lockFile
\* First attempt of lockFile (or of Create's TryLock) on the record file:
\* flock opens the path, creating an empty file when there is none.
LockOpen(p) ==
  LET f == Rec(proc[p].key)
      r == proc[p] IN
  /\ proc[p].pc = "lockopen"
  /\ IF IsDir(dir[f])
     THEN \E o \in DirOpens :
            IF o = "handle"
            THEN Commit([Cur EXCEPT !.proc[p].pc = "locktry",
                                    !.proc[p].lk = dir[f]], NoRes)
            ELSE IF r.op \in {"Set", "Update"}
            THEN Commit([Cur EXCEPT !.dir[Tmp(p)] = 0,
                           !.proc[p] = Return(CloseFh(UnlockTmp(r)))],
                        Ret(p, r, "ioerr", <<>>))
            ELSE Commit([Cur EXCEPT !.proc[p] = Return(CloseFh(r))],
                        Ret(p, r, "ioerr", <<>>))
     ELSE IF dir[f] # 0
     THEN Commit([Cur EXCEPT !.proc[p].pc = "locktry",
                             !.proc[p].lk = dir[f]], NoRes)
     ELSE /\ FreeInodes # {}
          /\ Commit([Cur EXCEPT !.dir[f] = NewIno,
                                !.proc[p].pc = "locktry",
                                !.proc[p].lk = NewIno], NoRes)

\* The step that follows a successful lock of the record file.
AfterLock(o) ==
  CASE o = "Get" -> "read"
    [] o = "Delete" -> "remove"
    [] o = "Create" -> "tmpfile"
    [] OTHER -> "rename"

\* One poll of the record file's lock. Create polls once, without waiting,
\* and takes a busy lock for an existing record (its deferred fh.Close()
\* runs). The others retry until the context expires.
LockTry(p) ==
  LET r == proc[p] IN
  /\ r.pc = "locktry"
  /\ IF CanLock(r.lk, LockMode(r.op))
     THEN Commit([Cur EXCEPT !.proc[p].lkm = LockMode(r.op),
                             !.proc[p].tries = 0,
                             !.proc[p].pc = AfterLock(r.op)], NoRes)
     ELSE IF r.op = "Create"
          THEN Commit([Cur EXCEPT !.proc[p] = Return(CloseFh(DropLock(r)))],
                      Ret(p, r, "exists", <<>>))
          ELSE /\ r.tries < MaxTries
               /\ Commit([Cur EXCEPT !.proc[p].tries = r.tries + 1], NoRes)

\* A give-up that returns before the deferred tmp.Release() has run.
LockTimeoutKeepsTemp(p) ==
  LET r == proc[p] IN
  /\ r.pc = "locktry"
  /\ r.op # "Create"
  /\ r.tries = MaxTries
  /\ Commit([Cur EXCEPT !.proc[p] = Return(CloseFh(UnlockTmp(DropLock(r))))],
            Ret(p, r, "timeout", <<>>))

\* A give-up that returns with none of the deferred calls run.
LockTimeoutSkipsRelease(p) ==
  LET r == proc[p] IN
  /\ r.pc = "locktry"
  /\ r.op # "Create"
  /\ r.tries = MaxTries
  /\ Commit([Cur EXCEPT !.proc[p] = Return(DropLock(r))],
            Ret(p, r, "timeout", <<>>))

\* A lockFile that waits for the lock without a deadline.
LockWaitsForever(p) ==
  LET r == proc[p] IN
  /\ r.pc = "locktry"
  /\ r.op # "Create"
  /\ r.tries = MaxTries
  /\ CanLock(r.lk, LockMode(r.op))
  /\ Commit([Cur EXCEPT !.proc[p].lkm = LockMode(r.op),
                        !.proc[p].tries = 0,
                        !.proc[p].pc = AfterLock(r.op)], NoRes)

\* A give-up of Set and Update that renames the temporary file all the same.
LockTimeoutRenames(p) ==
  LET r == proc[p] IN
  /\ r.pc = "locktry"
  /\ r.op # "Create"
  /\ r.tries = MaxTries
  /\ IF r.op \in {"Set", "Update"}
     THEN Commit([Cur EXCEPT !.dir[Rec(r.key)] = dir[Tmp(p)],
                    !.dir[Tmp(p)] = 0,
                    !.proc[p] = Return(CloseFh(UnlockTmp(DropLock(r))))],
                 Ret(p, r, "timeout", <<>>))
     ELSE Commit([Cur EXCEPT !.proc[p] = Return(CloseFh(DropLock(r)))],
                 Ret(p, r, "timeout", <<>>))

\* A lockFile whose context has expired before the first poll.
LockTimeoutUnpolled(p) ==
  LET r == proc[p] IN
  /\ r.pc = "locktry"
  /\ r.op # "Create"
  /\ r.tries = 0
  /\ IF r.op \in {"Set", "Update"}
     THEN Commit([Cur EXCEPT !.dir[Tmp(p)] = 0,
                    !.proc[p] = Return(CloseFh(UnlockTmp(DropLock(r))))],
                 Ret(p, r, "timeout", <<>>))
     ELSE Commit([Cur EXCEPT !.proc[p] = Return(CloseFh(DropLock(r)))],
                 Ret(p, r, "timeout", <<>>))

\* The context of lockFile on the record file has expired: the operation
\* returns context.DeadlineExceeded and its deferred calls run: tmp.Release()
\* (unlock, os.Remove(tmp.file)) in Set and Update, fh.Close() in Get,
\* Update and Delete.
LockTimeout(p) ==
  LET r == proc[p] IN
  /\ r.pc = "locktry"
  /\ r.op # "Create"
  /\ r.tries = MaxTries
  /\ IF r.op \in {"Set", "Update"}
     THEN Commit([Cur EXCEPT !.dir[Tmp(p)] = 0,
                    !.proc[p] = Return(CloseFh(UnlockTmp(DropLock(r))))],
                 Ret(p, r, "timeout", <<>>))
     ELSE Commit([Cur EXCEPT !.proc[p] = Return(CloseFh(DropLock(r)))],
                 Ret(p, r, "timeout", <<>>))

\* --------------------------------------------------------------- writeTemp
\* ioutil.TempFile creates an empty file under a fresh name; lockFile's first
\* attempt opens that name again.
DoTempFile(p, r) ==
  /\ FreeInodes # {}
  /\ dir[Tmp(p)] = 0
  /\ Commit([Cur EXCEPT !.dir[Tmp(p)] = NewIno,
                        !.proc[p] = [r EXCEPT !.pc = "tlocktry",
                                              !.tl = NewIno]], NoRes)

TempFile(p) ==
  /\ proc[p].pc = "tmpfile"
  /\ DoTempFile(p, proc[p])

\* A writeTemp that writes without the temporary file's lock.
TLockTrySkipsLock(p) ==
  /\ proc[p].pc = "tlocktry"
  /\ Commit([Cur EXCEPT !.proc[p].pc = "write"], NoRes)

\* One poll of the temporary file's exclusive lock. Nobody else opens the
\* fresh name, so the first poll succeeds.
TLockTry(p) ==
  LET r == proc[p] IN
  /\ r.pc = "tlocktry"
  /\ IF CanLock(r.tl, "ex")
     THEN Commit([Cur EXCEPT !.proc[p].tlm = TRUE, !.proc[p].tries = 0,
                             !.proc[p].pc = "write"], NoRes)
     ELSE /\ r.tries < MaxTries
          /\ Commit([Cur EXCEPT !.proc[p].tries = r.tries + 1], NoRes)

\* A writeTemp that returns once the first chunk is written.
WriteOneChunk(p) ==
  LET r == proc[p] IN
  /\ r.pc = "write"
  /\ Commit([Cur EXCEPT !.data[r.tl] = Append(data[r.tl], r.val),
               !.proc[p].pc = IF r.op = "Create" THEN "rename"
                              ELSE "lockopen"], NoRes)

\* tf.Write(value), a chunk at a time; after the last chunk tf.Sync() and
\* writeTemp returns: Create renames, Set and Update lock the record file.
Write(p) ==
  LET r == proc[p]
      c == Append(data[r.tl], r.val) IN
  /\ r.pc = "write"
  /\ Commit([Cur EXCEPT !.data[r.tl] = c,
               !.proc[p].pc = IF c # Full(r.val) THEN "write"
                              ELSE IF r.op = "Create" THEN "rename"
                              ELSE "lockopen"], NoRes)

\* os.Rename(tmp.file, file): the record name now refers to the temporary
\* file's inode and the temporary name is gone.
Rename(p) ==
  LET r == proc[p] IN
  /\ r.pc = "rename"
  /\ IF dir[Tmp(p)] = 0 \/ IsDir(dir[Rec(r.key)])
     THEN Commit([Cur EXCEPT !.proc[p].pc = "release",
                             !.proc[p].ret = "ioerr"], NoRes)
     ELSE Commit([Cur EXCEPT !.dir[Rec(r.key)] = dir[Tmp(p)],
                             !.dir[Tmp(p)] = 0,
                             !.proc[p].pc = "release",
                             !.proc[p].ret = "ok"], NoRes)

\* os.Remove(file) in Delete.
Remove(p) ==
  LET r == proc[p] IN
  /\ r.pc = "remove"
  /\ IF dir[Rec(r.key)] = 0
     THEN Commit([Cur EXCEPT !.proc[p].pc = "release",
                             !.proc[p].ret = "ioerr"], NoRes)
     ELSE Commit([Cur EXCEPT !.dir[Rec(r.key)] = 0,
                             !.proc[p].pc = "release",
                             !.proc[p].ret = "ok"], NoRes)

\* os.Remove(tmp.file) in tmp.Release() returns an error, which Release
\* drops: the temporary name is gone, the rename has taken it.
RemoveTmpFails(p) == dir[Tmp(p)] = 0

\* Deferred calls without lock.Unlock().
ReleaseKeepsLock(p) ==
  LET r == proc[p] IN
  /\ r.pc = "release"
  /\ Commit([Cur EXCEPT
               !.dir[Tmp(p)] = IF r.op = "Delete" THEN @ ELSE 0,
               !.proc[p] = Return(CloseFh(UnlockTmp(r)))],
            Ret(p, r, r.ret, <<>>))

\* The deferred calls after the rename or the remove: lock.Unlock(),
\* tmp.Release() (unlock, os.Remove(tmp.file)), fh.Close().
Release(p) ==
  LET r == proc[p] IN
  /\ r.pc = "release"
  /\ Commit([Cur EXCEPT
               !.dir[Tmp(p)] = IF r.op = "Delete" THEN @ ELSE 0,
               !.proc[p] = Return(CloseFh(UnlockTmp(Unlock(r))))],
            Ret(p, r, r.ret, <<>>))

\* --------------------------------------------------------------------- Get
\* os.Open(file).
GetOpen(p, k) ==
  /\ proc[p].pc = "idle"
  /\ IF ContainsRune(KeyText(k), PathSeparator) THEN Reject(p, "Get", k, 0)
     ELSE IF dir[Rec(k)] = 0
     THEN Commit([Cur EXCEPT !.proc[p] = Return(NewOp(p, "Get", k, 0))],
                 Result(p, "Get", k, 0, "notfound", <<>>, TRUE))
     ELSE Commit([Cur EXCEPT !.proc[p] =
                    [NewOp(p, "Get", k, 0) EXCEPT !.pc = "lockopen",
                                                  !.fh = dir[Rec(k)]]],
                 NoRes)

\* A Get that reads the temporary file of a write in progress when there
\* is one.
GetReadDirty(p) ==
  LET r == proc[p]
      T == {q \in Procs : dir[Tmp(q)] # 0} IN
  /\ r.pc = "read"
  /\ Commit([Cur EXCEPT !.proc[p] = Return(CloseFh(Unlock(r)))],
            Ret(p, r, "ok", IF T = {} THEN data[r.fh]
                            ELSE data[dir[Tmp(CHOOSE q \in T : TRUE)]]))

\* A Get whose lock outlives it: no deferred lock.Unlock().
GetReadKeepsLock(p) ==
  LET r == proc[p] IN
  /\ r.pc = "read"
  /\ Commit([Cur EXCEPT !.proc[p] = Return(CloseFh(r))],
            Ret(p, r, "ok", data[r.fh]))

\* ioutil.ReadAll(fh) through the handle Get opened, then the deferred
\* lock.Unlock() and fh.Close().
GetRead(p) ==
  LET r == proc[p] IN
  /\ r.pc = "read"
  /\ IF IsDir(r.fh)
     THEN Commit([Cur EXCEPT !.proc[p] = Return(CloseFh(Unlock(r)))],
                 Ret(p, r, "ioerr", <<>>))
     ELSE Commit([Cur EXCEPT !.proc[p] = Return(CloseFh(Unlock(r)))],
                 Ret(p, r, "ok", data[r.fh]))

\* --------------------------------------------------------------------- Set
\* A Set that does not look at its key.
SetStartAnyKey(p, k, v) ==
  /\ proc[p].pc = "idle"
  /\ DoTempFile(p, NewOp(p, "Set", k, v))

SetStart(p, k, v) ==
  /\ proc[p].pc = "idle"
  /\ IF ContainsRune(KeyText(k), PathSeparator) THEN Reject(p, "Set", k, v)
     ELSE DoTempFile(p, NewOp(p, "Set", k, v))

\* A Create that opens an existing record file and goes on to the lock.
CreateOpenWaits(p, k, v) ==
  /\ proc[p].pc = "idle"
  /\ FreeInodes # {}
  /\ LET i == IF dir[Rec(k)] # 0 THEN dir[Rec(k)] ELSE NewIno IN
     Commit([Cur EXCEPT !.dir[Rec(k)] = i,
               !.proc[p] = [NewOp(p, "Create", k, v) EXCEPT
                              !.pc = "lockopen", !.fh = i]], NoRes)

\* A Create that takes an existing record file for its success.
CreateOpenSettles(p, k, v) ==
  /\ proc[p].pc = "idle"
  /\ IF dir[Rec(k)] # 0
     THEN Commit([Cur EXCEPT !.proc[p] = Return(NewOp(p, "Create", k, v))],
                 Result(p, "Create", k, v, "ok", <<>>, TRUE))
     ELSE /\ FreeInodes # {}
          /\ Commit([Cur EXCEPT !.dir[Rec(k)] = NewIno,
                       !.proc[p] = [NewOp(p, "Create", k, v) EXCEPT
                                      !.pc = "lockopen", !.fh = NewIno]],
                    NoRes)

\* A Create that opens the record file with O_TRUNC instead of O_EXCL.
CreateOpenTruncates(p, k, v) ==
  /\ proc[p].pc = "idle"
  /\ FreeInodes # {}
  /\ LET i == IF dir[Rec(k)] # 0 THEN dir[Rec(k)] ELSE NewIno IN
     Commit([Cur EXCEPT !.dir[Rec(k)] = i, !.data[i] = <<>>,
               !.proc[p] = [NewOp(p, "Create", k, v) EXCEPT
                              !.pc = "lockopen", !.fh = i]], NoRes)

\* ------------------------------------------------------------------ Create
\* os.OpenFile(file, O_RDWR|O_CREATE|O_EXCL).
CreateOpen(p, k, v) ==
  /\ proc[p].pc = "idle"
  /\ IF ContainsRune(KeyText(k), PathSeparator)
     THEN Reject(p, "Create", k, v)
     ELSE IF dir[Rec(k)] # 0
     THEN Commit([Cur EXCEPT !.proc[p] = Return(NewOp(p, "Create", k, v))],
                 Result(p, "Create", k, v, "exists", <<>>, TRUE))
     ELSE /\ FreeInodes # {}
          /\ Commit([Cur EXCEPT !.dir[Rec(k)] = NewIno,
                       !.proc[p] = [NewOp(p, "Create", k, v) EXCEPT
                                      !.pc = "lockopen", !.fh = NewIno]],
                    NoRes)

\* An Update that opens the record file with O_CREATE.
UpdateOpenCreates(p, k, v) ==
  /\ proc[p].pc = "idle"
  /\ FreeInodes # {}
  /\ LET i == IF dir[Rec(k)] # 0 THEN dir[Rec(k)] ELSE NewIno IN
     Commit([Cur EXCEPT !.dir[Rec(k)] = i,
               !.proc[p] = [NewOp(p, "Update", k, v) EXCEPT
                              !.pc = "tmpfile", !.fh = i]], NoRes)

\* ------------------------------------------------------------------ Update
\* os.OpenFile(file, O_WRONLY): the file must exist.
UpdateOpen(p, k, v) ==
  /\ proc[p].pc = "idle"
  /\ IF ContainsRune(KeyText(k), PathSeparator)
     THEN Reject(p, "Update", k, v)
     ELSE IF dir[Rec(k)] = 0
     THEN Commit([Cur EXCEPT !.proc[p] = Return(NewOp(p, "Update", k, v))],
                 Result(p, "Update", k, v, "notfound", <<>>, TRUE))
     ELSE IF IsDir(dir[Rec(k)])
     THEN Commit([Cur EXCEPT !.proc[p] = Return(NewOp(p, "Update", k, v))],
                 Result(p, "Update", k, v, "ioerr", <<>>, TRUE))
     ELSE Commit([Cur EXCEPT !.proc[p] =
                    [NewOp(p, "Update", k, v) EXCEPT !.pc = "tmpfile",
                                                     !.fh = dir[Rec(k)]]],
                 NoRes)

\* A Delete that reports a missing record file as an error.
DeleteOpenNotFound(p, k) ==
  /\ proc[p].pc = "idle"
  /\ IF dir[Rec(k)] = 0
     THEN Commit([Cur EXCEPT !.proc[p] = Return(NewOp(p, "Delete", k, 0))],
                 Result(p, "Delete", k, 0, "notfound", <<>>, TRUE))
     ELSE Commit([Cur EXCEPT !.proc[p] =
                    [NewOp(p, "Delete", k, 0) EXCEPT !.pc = "lockopen",
                                                     !.fh = dir[Rec(k)]]],
                 NoRes)

\* A Delete that does not look for the record file before it locks it.
DeleteOpenWaits(p, k) ==
  /\ proc[p].pc = "idle"
  /\ Commit([Cur EXCEPT !.proc[p] =
               [NewOp(p, "Delete", k, 0) EXCEPT !.pc = "lockopen"]], NoRes)

\* A Delete that does not ask fh.Stat() whether the file is a directory.
DeleteOpenNoStat(p, k) ==
  /\ proc[p].pc = "idle"
  /\ IF ContainsRune(KeyText(k), PathSeparator)
     THEN Reject(p, "Delete", k, 0)
     ELSE IF dir[Rec(k)] = 0
     THEN Commit([Cur EXCEPT !.proc[p] = Return(NewOp(p, "Delete", k, 0))],
                 Result(p, "Delete", k, 0, "ok", <<>>, TRUE))
     ELSE Commit([Cur EXCEPT !.proc[p] =
                    [NewOp(p, "Delete", k, 0) EXCEPT !.pc = "lockopen",
                                                     !.fh = dir[Rec(k)]]],
                 NoRes)

\* ------------------------------------------------------------------ Delete
\* os.Open(file): a missing file is already gone, Delete returns nil; a
\* directory (fh.Stat, info.IsDir) is os.ErrInvalid.
DeleteOpen(p, k) ==
  /\ proc[p].pc = "idle"
  /\ IF ContainsRune(KeyText(k), PathSeparator)
     THEN Reject(p, "Delete", k, 0)
     ELSE IF dir[Rec(k)] = 0
     THEN Commit([Cur EXCEPT !.proc[p] = Return(NewOp(p, "Delete", k, 0))],
                 Result(p, "Delete", k, 0, "ok", <<>>, TRUE))
     ELSE IF IsDir(dir[Rec(k)])
     THEN Commit([Cur EXCEPT !.proc[p] = Return(NewOp(p, "Delete", k, 0))],
                 Result(p, "Delete", k, 0, "invalid", <<>>, TRUE))
     ELSE Commit([Cur EXCEPT !.proc[p] =
                    [NewOp(p, "Delete", k, 0) EXCEPT !.pc = "lockopen",
                                                     !.fh = dir[Rec(k)]]],
                 NoRes)

\* ----------------------------------------------------------------- ForEach
\* File names and keys are strings, here sequences of characters.
recExt == <<".", "k", "v">>

\* filepath.Ext(name): the suffix that begins at the last dot of the last
\* element of name, empty when that element has no dot.
Ext(name) ==
  LET dots == {i \in 1..Len(name) :
                 /\ name[i] = "."
                 /\ \A j \in i..Len(name) : name[j] # PathSeparator} IN
  IF dots = {} THEN <<>>
  ELSE SubSeq(name, CHOOSE i \in dots : \A j \in dots : j <= i, Len(name))

\* strings.HasSuffix(s, t) and strings.TrimSuffix(s, t).
HasSuffix(s, t) ==
  Len(s) >= Len(t) /\ SubSeq(s, Len(s) - Len(t) + 1, Len(s)) = t
TrimSuffix(s, t) == IF HasSuffix(s, t) THEN SubSeq(s, 1, Len(s) - Len(t)) ELSE s

\* The keys of the records ForEach may find: "a", "a.kv", "", "bbbb", ...
RecordKey(j) ==
  CASE j = 1 -> <<"a">>
    [] j = 2 -> <<"a">> \o recExt
    [] j = 3 -> <<>>
    [] OTHER -> [i \in 1..j |-> "b"]

\* The record file of the j-th key with the value v, as Set leaves it.
RecordFile(j, v) ==
  [name |-> RecordKey(j) \o recExt, isDir |-> FALSE, val |-> Full(v)]

\* What else a table directory may hold: a file without an extension, a
\* file whose extension only begins like recExt (a temporary file's name), a
\* directory whose name ends in recExt, and the directory of a nested table.
Others ==
  << [name |-> <<"x">>, isDir |-> FALSE, val |-> <<1>>],
     [name |-> <<"a">> \o recExt \o <<"1">>, isDir |-> FALSE, val |-> <<1>>],
     [name |-> <<"d">> \o recExt, isDir |-> TRUE, val |-> <<>>],
     [name |-> <<"t", ".", "t", "b", "l">>, isDir |-> TRUE, val |-> <<>>] >>

\* The table directory in the order Readdir lists it: the records recs (key
\* number -> value, 0 for none) and the other entries oth, interleaved, in
\* this order or in the reverse one.
Slots == 1..(2 * (IF NumRecords > Len(Others) THEN NumRecords ELSE Len(Others)))
Listing(recs, oth, rev) ==
  LET there(s) == IF s % 2 = 0 THEN s \div 2 <= NumRecords /\ recs[s \div 2] # 0
                  ELSE (s + 1) \div 2 \in oth
      slots == SelectSeq([s \in Slots |-> s], there)
      n == Len(slots)
      entry(s) == IF s % 2 = 0 THEN RecordFile(s \div 2, recs[s \div 2])
                  ELSE Others[(s + 1) \div 2] IN
  [i \in 1..n |-> entry(slots[IF rev THEN n + 1 - i ELSE i])]

\* Table.Get(key) when nothing else runs, on the table directory tbl while
\* another party holds an exclusive lock on the files named in locked:
\* os.Open(key+recExt), lockFile (shared), ioutil.ReadAll.
GetAlone(tbl, locked, key) ==
  LET file == key \o recExt
      at == {i \in 1..Len(tbl) : tbl[i].name = file} IN
  IF ContainsRune(key, PathSeparator) THEN [ret |-> "invalid", got |-> <<>>]
  ELSE IF at = {} THEN [ret |-> "notfound", got |-> <<>>]
  ELSE IF file \in locked THEN [ret |-> "timeout", got |-> <<>>]
  ELSE LET d == tbl[CHOOSE i \in at : TRUE] IN
       IF d.isDir THEN [ret |-> "ioerr", got |-> <<>>]
       ELSE [ret |-> "ok", got |-> d.val]

\* ForEach returns e.
EachReturn(e) == [fe EXCEPT !.pc = "done", !.ret = e, !.files = <<>>]

\* os.Open(table.path): the directory handle, or the error of a table
\* directory that is gone.
EachOpen ==
  /\ fe.pc = "open"
  /\ \E ok \in BOOLEAN :
       fe' = IF ok THEN [fe EXCEPT !.pc = "readdir", !.dh = TRUE]
             ELSE [EachReturn("patherr") EXCEPT !.fault = "open"]
  /\ UNCHANGED <<dir, data, ext, proc, res, db, lf>>

\* A ForEach that takes the first batch for the whole directory.
EachReaddirOnce ==
  /\ fe.pc = "readdir"
  /\ \/ /\ fe.pos = Len(fe.tbl)
        /\ fe' = [fe EXCEPT !.pc = "entry", !.files = <<>>, !.err = "EOF"]
     \/ \E n \in 1..readNum :
          /\ fe.pos + n <= Len(fe.tbl)
          /\ fe' = [fe EXCEPT !.pc = "entry", !.pos = fe.pos + n, !.err = "EOF",
                              !.files = SubSeq(fe.tbl, fe.pos + 1, fe.pos + n)]
     \/ fe' = [EachReturn("ioerr") EXCEPT !.fault = "readdir"]
  /\ UNCHANGED <<dir, data, ext, proc, res, db, lf>>

\* dh.Readdir(readNum) while err # io.EOF: the next entries, at most
\* readNum of them and at least one; at the end of the directory none, with
\* io.EOF; or an error, which ForEach returns.
EachReaddir ==
  /\ fe.pc = "readdir"
  /\ \/ /\ fe.pos = Len(fe.tbl)
        /\ fe' = [fe EXCEPT !.pc = "entry", !.files = <<>>, !.err = "EOF"]
     \/ \E n \in 1..readNum :
          /\ fe.pos + n <= Len(fe.tbl)
          /\ fe' = [fe EXCEPT !.pc = "entry", !.pos = fe.pos + n,
                              !.files = SubSeq(fe.tbl, fe.pos + 1, fe.pos + n)]
     \/ fe' = [EachReturn("ioerr") EXCEPT !.fault = "readdir"]
  /\ UNCHANGED <<dir, data, ext, proc, res, db, lf>>

\* A filter that looks at the name only.
IsRecordByExt(d) == Ext(d.name) = recExt

\* An entry is a record when its name ends in recExt and it is no directory.
IsRecord(d) == Ext(d.name) = recExt /\ ~d.isDir

\* A loop that goes on to the next entry after feFunc returned an error.
EachEntryGoesOn ==
  /\ fe.pc = "entry"
  /\ IF fe.files = <<>>
     THEN fe' = IF fe.err = "EOF" THEN EachReturn("ok")
                ELSE [fe EXCEPT !.pc = "readdir"]
     ELSE LET d == Head(fe.files)
              key == TrimSuffix(d.name, recExt)
              g == GetAlone(fe.tbl, fe.locked, key) IN
          IF ~IsRecord(d) THEN fe' = [fe EXCEPT !.files = Tail(@)]
          ELSE IF g.ret # "ok" THEN fe' = EachReturn(g.ret)
          ELSE \E e \in {"nil", "cberr"} :
                 fe' = [fe EXCEPT !.calls = Append(@, <<key, g.got>>),
                                  !.files = Tail(@),
                                  !.fault = IF e = "nil" THEN @ ELSE "callback"]
  /\ UNCHANGED <<dir, data, ext, proc, res, db, lf>>

\* The body of the loop over files for the next entry: a record is fetched
\* with Get and handed to feFunc, which returns nil or an error; an error of
\* either is returned. After the last entry the outer loop goes on, or
\* ForEach returns nil when err is io.EOF.
EachEntry ==
  /\ fe.pc = "entry"
  /\ IF fe.files = <<>>
     THEN fe' = IF fe.err = "EOF" THEN EachReturn("ok")
                ELSE [fe EXCEPT !.pc = "readdir"]
     ELSE LET d == Head(fe.files)
              key == TrimSuffix(d.name, recExt)
              g == GetAlone(fe.tbl, fe.locked, key) IN
          IF ~IsRecord(d) THEN fe' = [fe EXCEPT !.files = Tail(@)]
          ELSE IF g.ret # "ok" THEN fe' = EachReturn(g.ret)
          ELSE \E e \in {"nil", "cberr"} :
                 LET called == [fe EXCEPT !.calls = Append(@, <<key, g.got>>)] IN
                 fe' = IF e = "nil" THEN [called EXCEPT !.files = Tail(@)]
                       ELSE [called EXCEPT !.pc = "done", !.ret = e,
                                           !.files = <<>>, !.fault = "callback"]
  /\ UNCHANGED <<dir, data, ext, proc, res, db, lf>>

\* ------------------------------------------------------------------ tables
tblExt == <<".", "t", "b", "l">>

\* strings.HasPrefix(s, t) and strings.TrimPrefix(s, t).
HasPrefix(s, t) == Len(s) >= Len(t) /\ SubSeq(s, 1, Len(t)) = t
TrimPrefix(s, t) == IF HasPrefix(s, t) THEN SubSeq(s, Len(t) + 1, Len(s)) ELSE s

\* The elements of a path: what stands between its separators.
RECURSIVE Split(_)
Split(s) ==
  IF ~ContainsRune(s, PathSeparator) THEN <<s>>
  ELSE LET i == CHOOSE i \in 1..Len(s) :
                  s[i] = PathSeparator /\ \A j \in 1..(i - 1) : s[j] # PathSeparator IN
       <<SubSeq(s, 1, i - 1)>> \o Split(SubSeq(s, i + 1, Len(s)))

\* The elements es with a separator between them.
RECURSIVE JoinSep(_)
JoinSep(es) ==
  IF es = <<>> THEN <<>>
  ELSE IF Len(es) = 1 THEN es[1]
  ELSE es[1] \o <<PathSeparator>> \o JoinSep(Tail(es))

\* filepath.Clean on the elements es, out being the elements kept so far:
\* empty elements and "." go, ".." takes the element before it away.
RECURSIVE CleanElems(_, _, _)
CleanElems(es, out, rooted) ==
  IF es = <<>> THEN out
  ELSE LET e == Head(es) IN
       CleanElems(Tail(es),
         IF e = <<>> \/ e = <<".">> THEN out
         ELSE IF e = <<".", ".">>
              THEN IF out # <<>> /\ out[Len(out)] # <<".", ".">>
                   THEN SubSeq(out, 1, Len(out) - 1)
                   ELSE IF rooted THEN out ELSE Append(out, e)
              ELSE Append(out, e),
         rooted)

\* filepath.Clean(path).
Clean(path) ==
  IF path = <<>> THEN <<".">>
  ELSE LET rooted == path[1] = PathSeparator
           es == CleanElems(Split(path), <<>>, rooted) IN
       IF rooted THEN <<PathSeparator>> \o JoinSep(es)
       ELSE IF es = <<>> THEN <<".">> ELSE JoinSep(es)

\* filepath.Join(a, b): the non-empty ones, joined, cleaned.
Join(a, b) ==
  IF a = <<>> /\ b = <<>> THEN <<>>
  ELSE IF a = <<>> THEN Clean(b)
  ELSE IF b = <<>> THEN Clean(a)
  ELSE Clean(a \o <<PathSeparator>> \o b)

\* The directories os.MkdirAll(path) needs: path and what it lies in.
Ancestors(path) ==
  {SubSeq(path, 1, i - 1) : i \in {j \in 2..Len(path) : path[j] = PathSeparator}}
    \cup {path}

\* The directory that holds path ("." for a single element).
Parent(path) ==
  LET seps == {j \in 2..Len(path) : path[j] = PathSeparator} IN
  IF seps = {} THEN <<".">>
  ELSE SubSeq(path, 1, (CHOOSE j \in seps : \A l \in seps : l <= j) - 1)

\* The roots New is called with, the names Table is called with (paths that
\* filepath.Join made, and the empty name), the plain directories and the
\* files that are put below the root.
Roots == {<<"r">>, <<"r", PathSeparator>>}
Timeouts == {1, 2}
TableNames == {<<"a">>, <<"b">>, <<"a", PathSeparator, "b">>, <<>>}
PlainDirs == {<<"n">>, <<"a", PathSeparator, "n">>}
StrayFiles == {<<"h">> \o recExt, <<"x">> \o tblExt, <<"a", PathSeparator, "h">>}

\* The Database after New(dir, timeout) has returned it: newTable("", dir,
\* timeout) has made the directory.
InitDB ==
  \E r \in Roots, t \in Timeouts :
    db = [NoDB EXCEPT !.root = r, !.timeout = t, !.dirs = Ancestors(Clean(r))]

\* What a call of New or of db.Table was given (name, and arg, the timeout
\* of New) and what it returns: the error, the Table and the caller that
\* allocated it (by, which tells two equal Tables apart).
NoTable == [name |-> <<>>, path |-> <<>>, timeout |-> 0]
NoGot == [p |-> 0, op |-> "none", name |-> <<>>, arg |-> 0, err |-> "nil",
          tbl |-> NoTable, by |-> 0]
Got(p, op, name, err, tbl, by) ==
  [p |-> p, op |-> op, name |-> name, arg |-> 0, err |-> err, tbl |-> tbl,
   by |-> by]

\* The caller whose Table the cache holds under name.
Owner(name) == CHOOSE p \in Procs : <<name, p>> \in db.owner

\* Whether os.MkdirAll(path) fails: a file stands where a directory has to
\* be, or a directory on the way may not be searched.
MkdirAllFails(path) ==
  \/ Ancestors(path) \cap db.files # {}
  \/ (Ancestors(path) \ {path}) \cap db.denied # {}

\* What New(r, t) returns.
NewGot(r, t, err) ==
  [Got(0, "New", r, err,
       IF err = "nil" THEN [name |-> <<>>, path |-> r, timeout |-> t]
       ELSE NoTable, 0) EXCEPT !.arg = t]

\* New that makes the directory before it looks at the timeout.
DBNewMakesDirFirst(r, t) ==
  /\ db.root = <<>>
  /\ IF MkdirAllFails(Clean(r))
     THEN db' = [db EXCEPT !.got = NewGot(r, t, "not a directory")]
     ELSE IF t <= 0
     THEN db' = [db EXCEPT !.dirs = @ \cup Ancestors(Clean(r)),
                           !.got = NewGot(r, t, "Invalid lock timeout")]
     ELSE db' = [db EXCEPT !.root = r, !.timeout = t,
                           !.dirs = @ \cup Ancestors(Clean(r)),
                           !.got = NewGot(r, t, "nil")]
  /\ UNCHANGED <<dir, data, ext, proc, res, fe, lf>>

\* New(dir, timeout): the timeout is looked at first, then newTable("", dir,
\* timeout) makes the directory; any error returns no Database.
DBNew(r, t) ==
  /\ db.root = <<>>
  /\ IF t <= 0
     THEN db' = [db EXCEPT !.got = NewGot(r, t, "Invalid lock timeout")]
     ELSE IF MkdirAllFails(Clean(r))
     THEN db' = [db EXCEPT !.got = NewGot(r, t, "not a directory")]
     ELSE db' = [db EXCEPT !.root = r, !.timeout = t,
                           !.dirs = @ \cup Ancestors(Clean(r)),
                           !.got = NewGot(r, t, "nil")]
  /\ UNCHANGED <<dir, data, ext, proc, res, fe, lf>>

\* db.Table(name) that makes the directory of the cached Table again.
TableLoadMakesDir(p, name) ==
  /\ db.root # <<>>
  /\ db.call[p].pc = "idle"
  /\ IF \E t \in db.tables : t.name = name
     THEN LET t == CHOOSE t \in db.tables : t.name = name IN
          db' = [db EXCEPT !.got = Got(p, "Table", name, "nil", t, Owner(name)),
                           !.dirs = @ \cup Ancestors(t.path),
                           !.found = <<>>, !.err = "nil", !.listed = FALSE]
     ELSE db' = [db EXCEPT !.call[p] = [pc |-> "newTable", name |-> name,
                                        tbl |-> NoTable],
                           !.got = NoGot, !.found = <<>>, !.err = "nil",
                           !.listed = FALSE]
  /\ UNCHANGED <<dir, data, ext, proc, res, fe, lf>>

\* db.Table(name), db.tables.Load(name): the cached Table is returned, or
\* the caller goes on to newTable.
TableLoad(p, name) ==
  /\ db.root # <<>>
  /\ db.call[p].pc = "idle"
  /\ IF \E t \in db.tables : t.name = name
     THEN db' = [db EXCEPT !.got = Got(p, "Table", name, "nil",
                                       CHOOSE t \in db.tables : t.name = name,
                                       Owner(name)),
                           !.found = <<>>, !.err = "nil", !.listed = FALSE]
     ELSE db' = [db EXCEPT !.call[p] = [pc |-> "newTable", name |-> name,
                                        tbl |-> NoTable],
                           !.got = NoGot, !.found = <<>>, !.err = "nil",
                           !.listed = FALSE]
  /\ UNCHANGED <<dir, data, ext, proc, res, fe, lf>>

\* newTable whose Table is stored although os.MkdirAll has failed.
TableNewStoresOnError(p) ==
  LET name == db.call[p].name
      path == Join(db.root, name \o tblExt)
      tbl == [name |-> name, path |-> path, timeout |-> db.timeout] IN
  /\ db.call[p].pc = "newTable"
  /\ IF MkdirAllFails(path)
     THEN db' = [db EXCEPT !.call[p] = [pc |-> "idle", name |-> <<>>,
                                        tbl |-> NoTable],
                           !.tables = {t \in @ : t.name # name} \cup {tbl},
                           !.owner = {o \in @ : o[1] # name} \cup {<<name, p>>},
                           !.got = Got(p, "Table", name, "not a directory",
                                       NoTable, 0),
                           !.found = <<>>, !.err = "nil", !.listed = FALSE]
     ELSE db' = [db EXCEPT !.dirs = @ \cup Ancestors(path),
                           !.call[p] = [pc |-> "Store", name |-> name,
                                        tbl |-> tbl],
                           !.got = NoGot, !.found = <<>>, !.err = "nil",
                           !.listed = FALSE]
  /\ UNCHANGED <<dir, data, ext, proc, res, fe, lf>>

\* newTable(name, filepath.Join(db.root.path, name+tblExt), db.root.timeout):
\* os.MkdirAll; its error is returned and nothing stored.
TableNew(p) ==
  LET name == db.call[p].name
      path == Join(db.root, name \o tblExt) IN
  /\ db.call[p].pc = "newTable"
  /\ IF MkdirAllFails(path)
     THEN db' = [db EXCEPT !.call[p] = [pc |-> "idle", name |-> <<>>,
                                        tbl |-> NoTable],
                           !.got = Got(p, "Table", name, "not a directory",
                                       NoTable, 0),
                           !.found = <<>>, !.err = "nil", !.listed = FALSE]
     ELSE db' = [db EXCEPT !.dirs = @ \cup Ancestors(path),
                           !.call[p] = [pc |-> "Store", name |-> name,
                                        tbl |-> [name |-> name, path |-> path,
                                                 timeout |-> db.timeout]],
                           !.got = NoGot, !.found = <<>>, !.err = "nil",
                           !.listed = FALSE]
  /\ UNCHANGED <<dir, data, ext, proc, res, fe, lf>>

\* db.tables.Store that keeps what was stored under name before.
TableStoreKeepsBoth(p) ==
  LET name == db.call[p].name IN
  /\ db.call[p].pc = "Store"
  /\ db' = [db EXCEPT !.tables = @ \cup {db.call[p].tbl},
                      !.owner = @ \cup {<<name, p>>},
                      !.call[p] = [pc |-> "idle", name |-> <<>>,
                                   tbl |-> NoTable],
                      !.got = Got(p, "Table", name, "nil", db.call[p].tbl, p),
                      !.found = <<>>, !.err = "nil", !.listed = FALSE]
  /\ UNCHANGED <<dir, data, ext, proc, res, fe, lf>>

\* db.tables.Store(name, table) and the return of the Table.
TableStore(p) ==
  LET name == db.call[p].name IN
  /\ db.call[p].pc = "Store"
  /\ db' = [db EXCEPT !.tables = {t \in @ : t.name # name} \cup {db.call[p].tbl},
                      !.owner = {o \in @ : o[1] # name} \cup {<<name, p>>},
                      !.call[p] = [pc |-> "idle", name |-> <<>>,
                                   tbl |-> NoTable],
                      !.got = Got(p, "Table", name, "nil", db.call[p].tbl, p),
                      !.found = <<>>, !.err = "nil", !.listed = FALSE]
  /\ UNCHANGED <<dir, data, ext, proc, res, fe, lf>>

\* A step of db.Table(name) after the cache has been looked at.
TableStep(p) == TableNew(p) \/ TableStore(p)

\* Nobody is inside db.Table.
NoCall == \A p \in Procs : db.call[p].pc = "idle"

\* Somebody makes a plain directory below the root: os.MkdirAll.
DBMkdir(rel) ==
  LET path == Join(db.root, rel) IN
  /\ db.root # <<>>
  /\ path \notin db.dirs
  /\ ~MkdirAllFails(path)
  /\ db' = [db EXCEPT !.dirs = @ \cup Ancestors(path), !.got = NoGot,
                      !.found = <<>>, !.err = "nil", !.listed = FALSE]
  /\ UNCHANGED <<dir, data, ext, proc, res, fe, lf>>

\* Somebody writes a file into a directory that exists: ioutil.WriteFile.
DBWriteFile(rel) ==
  LET path == Join(db.root, rel) IN
  /\ db.root # <<>>
  /\ path \notin db.dirs \cup db.files
  /\ Parent(path) \in db.dirs
  /\ Ancestors(path) \cap db.denied = {}
  /\ db' = [db EXCEPT !.files = @ \cup {path}, !.got = NoGot, !.found = <<>>,
                      !.err = "nil", !.listed = FALSE]
  /\ UNCHANGED <<dir, data, ext, proc, res, fe, lf>>

\* path and what lies below it.
Below(path) ==
  {q \in db.dirs \cup db.files :
     q = path \/ HasPrefix(q, path \o <<PathSeparator>>)}

\* Somebody removes a directory below the root with all it holds:
\* os.RemoveAll.
DBRemoveAll(rel) ==
  LET path == Join(db.root, rel) IN
  /\ db.root # <<>>
  /\ path \in db.dirs
  /\ path # Clean(db.root)
  /\ (Ancestors(path) \cup Below(path)) \cap db.denied = {}
  /\ db' = [db EXCEPT !.dirs = @ \ Below(path), !.files = @ \ Below(path),
                      !.got = NoGot, !.found = <<>>, !.err = "nil",
                      !.listed = FALSE]
  /\ UNCHANGED <<dir, data, ext, proc, res, fe, lf>>

\* Somebody takes all permissions of a directory away: os.Chmod(path, 0).
DBChmod(rel) ==
  LET path == Join(db.root, rel) IN
  /\ db.root # <<>>
  /\ path \in db.dirs \ db.denied
  /\ (Ancestors(path) \ {path}) \cap db.denied = {}
  /\ db' = [db EXCEPT !.denied = @ \cup {path}, !.got = NoGot,
                      !.found = <<>>, !.err = "nil", !.listed = FALSE]
  /\ UNCHANGED <<dir, data, ext, proc, res, fe, lf>>

\* A change of the timeout that is handed on to the cached Tables.
DBSetTimeoutPropagates(t) ==
  /\ db.root # <<>>
  /\ t # db.timeout
  /\ db' = [db EXCEPT !.timeout = t,
                      !.tables = {[u EXCEPT !.timeout = t] : u \in @},
                      !.got = NoGot, !.found = <<>>,
                      !.err = "nil", !.listed = FALSE]
  /\ UNCHANGED <<dir, data, ext, proc, res, fe, lf>>

\* The test sets db.root.timeout to another value.
DBSetTimeout(t) ==
  /\ db.root # <<>>
  /\ t # db.timeout
  /\ db' = [db EXCEPT !.timeout = t, !.got = NoGot, !.found = <<>>,
                      !.err = "nil", !.listed = FALSE]
  /\ UNCHANGED <<dir, data, ext, proc, res, fe, lf>>

\* The paths filepath.Walk(rootPath, fn) hands to fn: rootPath as it is,
\* then filepath.Join(path, name) for every entry below, which is the clean
\* path of the entry. Walk does not go into a directory it cannot read.
Walked ==
  {db.root} \cup {p \in db.dirs \cup db.files :
                    /\ HasPrefix(p, Clean(db.root) \o <<PathSeparator>>)
                    /\ (Ancestors(p) \ {p}) \cap db.denied = {}}

\* The paths of S, one after the other, rootPath first.
RECURSIVE WalkSeq(_)
WalkSeq(S) ==
  IF S = {} THEN <<>>
  ELSE LET p == IF db.root \in S THEN db.root ELSE CHOOSE q \in S : TRUE IN
       <<p>> \o WalkSeq(S \ {p})

\* Walk hands fn the error of reading a directory, fn returns it and Walk
\* ends with it.
WalkFails == \E p \in Walked : Clean(p) \in db.denied

\* The function Tables hands to filepath.Walk: whether it appends a table
\* for path, and the table.
IsTableDir(path) ==
  /\ path \notin db.files
  /\ ~(Ext(path) # tblExt /\ path # db.root)
FoundTable(path) ==
  [name |-> IF path # db.root
            THEN TrimSuffix(TrimPrefix(path, db.root \o <<PathSeparator>>), tblExt)
            ELSE <<>>,
   path |-> path, timeout |-> db.timeout]

\* The tables that Tables appends while Walk goes on.
Appended ==
  LET paths == SelectSeq(WalkSeq(Walked), IsTableDir) IN
  [i \in 1..Len(paths) |-> FoundTable(paths[i])]

\* db.Tables() that returns what it has found along with the error.
DBTablesKeepsFound ==
  /\ db.root # <<>>
  /\ ~db.listed
  /\ db' = [db EXCEPT !.found = Appended,
                      !.err = IF WalkFails THEN "PathError" ELSE "nil",
                      !.listed = TRUE, !.got = NoGot]
  /\ UNCHANGED <<dir, data, ext, proc, res, fe, lf>>

\* db.Tables(): the tables found, or nil and the error of Walk.
DBTables ==
  /\ db.root # <<>>
  /\ ~db.listed
  /\ db' = [db EXCEPT !.found = IF WalkFails THEN <<>> ELSE Appended,
                      !.err = IF WalkFails THEN "PathError" ELSE "nil",
                      !.listed = TRUE, !.got = NoGot]
  /\ UNCHANGED <<dir, data, ext, proc, res, fe, lf>>

\* The root table of the Database, and the Tables a caller can hold.
RootTable == [name |-> <<>>, path |-> db.root, timeout |-> db.timeout]
Handles == {RootTable} \cup db.tables

\* filepath.Join(table.path, key+recExt).
RecordPath(t, key) == Join(t.path, key \o recExt)

\* The value of the record file at path, 0 when there is none.
ValueAt(recs, path) ==
  IF \E r \in recs : r[1] = path
  THEN (CHOOSE r \in recs : r[1] = path)[2]
  ELSE 0

\* What table.Get(key) returns when nobody else is at work: the value, or
\* 0 for os.ErrNotExist.
TableGet(t, key) == ValueAt(db.recs, RecordPath(t, key))

\* The record file at path gets the value v (0: it is removed).
WriteAt(path, v) ==
  [db EXCEPT !.recs = {r \in @ : r[1] # path}
                        \cup (IF v = 0 THEN {} ELSE {<<path, v>>}),
             !.files = IF v = 0 THEN @ \ {path} ELSE @ \cup {path},
             !.got = NoGot, !.found = <<>>, !.err = "nil", !.listed = FALSE]

\* table.Set, Create, Update and Delete with nobody else at work, for a
\* table whose directory is there: the record file is replaced, made,
\* replaced when it exists, removed.
TableWrite(t, op, key, v) ==
  LET file == RecordPath(t, key)
      there == file \in db.files
      err == IF op = "Create" /\ there THEN "ErrExist"
             ELSE IF op = "Update" /\ ~there THEN "ErrNotExist"
             ELSE "nil" IN
  /\ db.root # <<>>
  /\ NoCall
  /\ t.path \in db.dirs
  /\ file \notin db.dirs
  /\ db' = [(IF err # "nil" \/ (op = "Delete" /\ ~there) THEN db
             ELSE WriteAt(file, IF op = "Delete" THEN 0 ELSE v))
            EXCEPT !.got = Got(0, op, key, err, t, 0), !.found = <<>>,
                   !.err = "nil", !.listed = FALSE]
  /\ UNCHANGED <<dir, data, ext, proc, res, fe, lf>>

\* ------------------------------------------------------- lockFile's clock
\* timeout/100, the retry delay lockFile hands to TryLockContext. Durations
\* are whole nanoseconds and the division is Go's integer division.
PollsPerTimeout == 100
RetryDelay(timeout) == timeout \div PollsPerTimeout

\* lockFile(path, exclusive, timeout): context.WithTimeout(timeout) sets the
\* deadline, now being 0, and try(ctx, timeout/100) begins.
LockFileStart ==
  /\ lf.pc = "call"
  /\ lf' = [lf EXCEPT !.pc = "try", !.delay = RetryDelay(lf.timeout)]
  /\ UNCHANGED <<dir, data, ext, proc, res, fe, db>>

\* One attempt of TryLockContext: the lock is busy and the select follows,
\* or the lock is free at last.
PollTry ==
  /\ lf.pc = "try"
  /\ lf.tries < MaxPolls
  /\ \E busy \in BOOLEAN :
       lf' = [lf EXCEPT !.tries = @ + 1,
                        !.pc = IF busy THEN "select" ELSE "locked"]
  /\ UNCHANGED <<dir, data, ext, proc, res, fe, db>>

\* The time the select takes when time.After(delay) ends it: delay, or, as
\* no step takes less than no time, a nanosecond when delay is zero.
WaitTimes(delay) == {delay} \cup (IF delay = 0 THEN {1} ELSE {})

\* select, case <-time.After(retryDelay): the timer fires no later than the
\* deadline and the lock is tried again.
PollAgain ==
  /\ lf.pc = "select"
  /\ \E d \in WaitTimes(lf.delay) :
       /\ lf.now + d <= lf.timeout
       /\ lf' = [lf EXCEPT !.pc = "try", !.now = @ + d]
  /\ UNCHANGED <<dir, data, ext, proc, res, fe, db>>

\* select, case <-ctx.Done(): the deadline comes no later than the timer and
\* lockFile returns context.DeadlineExceeded.
PollTimeout ==
  /\ lf.pc = "select"
  /\ lf.now + lf.delay >= lf.timeout
  /\ lf' = [lf EXCEPT !.pc = "timeout", !.now = lf.timeout]
  /\ UNCHANGED <<dir, data, ext, proc, res, fe, db>>

\* ---------------------------------------------------------- specifications
\* A step of a Get, Set, Create or Update that does not give up.
StepOn(p) ==
  \/ LockOpen(p)
  \/ LockTry(p)
  \/ TempFile(p)
  \/ TLockTry(p)
  \/ Write(p)
  \/ Rename(p)
  \/ Release(p)
  \/ GetRead(p)

\* A step inside a Get, Set, Create or Update that has been called.
StepRW(p) == StepOn(p) \/ LockTimeout(p)

\* A step inside an operation that has been called.
Step(p) == StepRW(p) \/ Remove(p)

\* A call of Get, Set or Update with a key of K and a value of V.
CallRWOn(p, K, V) ==
  \/ \E k \in K : GetOpen(p, k)
  \/ \E k \in K, v \in V : SetStart(p, k, v)
  \/ \E k \in K, v \in V : UpdateOpen(p, k, v)

\* A call of an operation with a key of K and a value of V.
CallOn(p, K, V) ==
  \/ CallRWOn(p, K, V)
  \/ \E k \in K, v \in V : CreateOpen(p, k, v)
  \/ \E k \in K : DeleteOpen(p, k)

\* The key that the concurrent callers work on, and that has a record to
\* begin with where a table starts with one.
Stored == CHOOSE k \in Keys : \A j \in Keys : k <= j

\* A call of Get, Set or Update on the key Stored.
CallRW(p) == CallRWOn(p, {Stored}, Values)

\* A call of an operation on the key Stored.
CallStored(p) == CallOn(p, {Stored}, Values)

\* A call of an operation on any key.
Call(p) == CallOn(p, Keys, Values)

\* Concurrent callers of one key of an empty table, nobody else.
Next == \E p \in Procs : CallStored(p) \/ Step(p)

Spec == Init /\ [][Next]_vars

\* No call is in progress.
Quiet == \A q \in Procs : proc[q].pc = "idle"

\* The record of key Stored exists with the value 1, no other does.
InitRecord ==
  /\ proc = [p \in Procs |-> Idle]
  /\ dir = [n \in Names |-> IF n = Rec(Stored) THEN 1 ELSE 0]
  /\ data = [i \in Inodes |-> IF i = 1 THEN Full(1) ELSE <<>>]
  /\ res = NoRes
  /\ lf = NoLF
  /\ fe = NoEach
  /\ db = NoDB

\* Concurrent Gets, Sets and Updates of an existing record.
InitRW == InitRecord /\ ext = [ino |-> 0, mode |-> "none"]

NextRW == \E p \in Procs : CallRW(p) \/ StepRW(p)

SpecRW == InitRW /\ [][NextRW]_vars

\* Concurrent callers while another party holds, for good, a shared or an
\* exclusive flock on the existing record file (or holds none).
InitHeld ==
  /\ InitRecord
  /\ ext \in {[ino |-> 0, mode |-> "none"], [ino |-> 1, mode |-> "sh"],
              [ino |-> 1, mode |-> "ex"]}

SpecHeld == InitHeld /\ [][Next]_vars

\* Calls made one after the other: a call starts when none is in progress,
\* so no lock is ever busy and no lockFile gives up (SeqNeverWaits).
NextSeq == \E p \in Procs : (Quiet /\ Call(p)) \/ StepOn(p) \/ Remove(p)

SpecSeq == Init /\ [][NextSeq]_vars

\* Every caller that is inside an operation goes on running: its goroutine
\* is scheduled, the timers of lockFile fire.
Fairness == \A p \in Procs : WF_vars(Step(p))

\* SpecHeld with callers that go on running and write one value.
NextLive == \E p \in Procs : CallOn(p, {Stored}, {1}) \/ Step(p)

SpecLive == InitHeld /\ [][NextLive]_vars /\ Fairness

\* No caller is inside a call on key k.
Free(k) == \A q \in Procs : proc[q].op = "none" \/ proc[q].key # k

\* Concurrent callers, each call on a key that no call in progress works on,
\* while another party holds a lock on the record of Stored (or none).
NextApart ==
  \E p \in Procs :
    (\E k \in Keys : Free(k) /\ CallOn(p, {k}, Values)) \/ Step(p)

SpecApart == InitHeld /\ [][NextApart]_vars

\* A ForEach of a table directory that holds any of the records, with any
\* values, and any of the other entries, listed in one of two orders, while
\* another party holds an exclusive lock on one record file or on none.
\* Nothing else runs.
InitEach ==
  /\ proc = [p \in Procs |-> Idle]
  /\ dir = [n \in Names |-> 0]
  /\ data = [i \in Inodes |-> <<>>]
  /\ ext = [ino |-> 0, mode |-> "none"]
  /\ res = NoRes
  /\ lf = NoLF
  /\ db = NoDB
  /\ \E recs \in [1..NumRecords -> {0} \cup Values],
        oth \in SUBSET (1..Len(Others)), rev \in BOOLEAN :
       \E l \in {{}} \cup {{RecordKey(j) \o recExt} :
                              j \in {i \in 1..NumRecords : recs[i] # 0}} :
         fe = [NoEach EXCEPT !.pc = "open", !.tbl = Listing(recs, oth, rev),
                             !.locked = l]

NextEach == EachOpen \/ EachReaddir \/ EachEntry

\* ForEach runs on: the calling goroutine is scheduled.
SpecEach == InitEach /\ [][NextEach]_vars /\ WF_vars(NextEach)

\* A database after New: tables are made with Table, plain directories and
\* files appear below the root, and Tables is called at any time.
InitTables ==
  /\ proc = [p \in Procs |-> Idle]
  /\ dir = [n \in Names |-> 0]
  /\ data = [i \in Inodes |-> <<>>]
  /\ ext = [ino |-> 0, mode |-> "none"]
  /\ res = NoRes
  /\ lf = NoLF
  /\ fe = NoEach
  /\ InitDB

NextTables ==
  \/ \E p \in Procs, name \in TableNames : NoCall /\ TableLoad(p, name)
  \/ \E p \in Procs : TableStep(p)
  \/ \E rel \in PlainDirs : DBMkdir(rel)
  \/ \E rel \in StrayFiles : DBWriteFile(rel)
  \/ DBTables

SpecTables == InitTables /\ [][NextTables]_vars

\* The state before New: nothing at the root path, a directory, or a file.
InitNoDB ==
  /\ proc = [p \in Procs |-> Idle]
  /\ dir = [n \in Names |-> 0]
  /\ data = [i \in Inodes |-> <<>>]
  /\ ext = [ino |-> 0, mode |-> "none"]
  /\ res = NoRes
  /\ lf = NoLF
  /\ fe = NoEach
  /\ db \in {NoDB, [NoDB EXCEPT !.dirs = {<<"r">>}],
             [NoDB EXCEPT !.files = {<<"r">>}]}

\* The timeouts New is called with, the directories that are removed or
\* made unreadable and the file that is put where a table goes.
NewTimeouts == {-1, 0} \cup Timeouts
RemovedDirs == {<<"a">> \o tblExt, <<"b">> \o tblExt}
DeniedDirs == {<<>>, <<"a">> \o tblExt}
BlockingFiles == {<<"b">> \o tblExt}
CachedNames == {<<"a">>, <<"b">>}

\* New, then calls of Table one after the other and of Tables, while the
\* timeout of the Database and the directories change.
NextDB ==
  \/ \E r \in Roots, t \in NewTimeouts : DBNew(r, t)
  \/ \E p \in Procs, name \in CachedNames : NoCall /\ TableLoad(p, name)
  \/ \E p \in Procs : TableStep(p)
  \/ \E t \in Timeouts : DBSetTimeout(t)
  \/ \E rel \in RemovedDirs : DBRemoveAll(rel)
  \/ \E rel \in DeniedDirs : DBChmod(rel)
  \/ \E rel \in BlockingFiles : DBWriteFile(rel)
  \/ DBTables

SpecDB == InitNoDB /\ [][NextDB]_vars

\* Callers of Table at the same time, while table directories are removed.
NextRace ==
  \/ \E p \in Procs, name \in CachedNames : TableLoad(p, name)
  \/ \E p \in Procs : TableStep(p)
  \/ \E rel \in RemovedDirs : DBRemoveAll(rel)

SpecRace == InitTables /\ [][NextRace]_vars

\* The names Table is called with where tables are written to: paths that
\* filepath.Join makes, one of them rooted.
SpaceNames == {<<"a">>, <<PathSeparator, "a">>, <<"b">>}
WriteOps == {"Set", "Create", "Update", "Delete"}

\* Calls of Table, of Tables and of the record operations of the tables a
\* caller holds, one after the other.
NextSpaces ==
  \/ \E p \in Procs, name \in SpaceNames : NoCall /\ TableLoad(p, name)
  \/ \E p \in Procs : TableStep(p)
  \/ \E rel \in BlockingFiles : DBWriteFile(rel)
  \/ \E t \in Handles, op \in WriteOps, v \in Values :
       TableWrite(t, op, KeyText(Stored), v)
  \/ DBTables

SpecSpaces == InitTables /\ [][NextSpaces]_vars

\* Where the record file of the key Stored would be there is a directory.
InitDirKey ==
  /\ proc = [p \in Procs |-> Idle]
  /\ dir = [n \in Names |-> IF n = Rec(Stored) THEN 1 ELSE 0]
  /\ data = [i \in Inodes |-> IF i = 1 THEN DirMark ELSE <<>>]
  /\ ext = [ino |-> 0, mode |-> "none"]
  /\ res = NoRes
  /\ lf = NoLF
  /\ fe = NoEach
  /\ db = NoDB

\* The steps that follow a call whose record path is a directory: no Update
\* and no Create gets to its temporary file, no Delete to os.Remove.
StepDirKey(p) ==
  \/ LockOpen(p)
  \/ LockTry(p)
  \/ LockTimeout(p)
  \/ TLockTry(p)
  \/ Write(p)
  \/ Rename(p)
  \/ Release(p)
  \/ GetRead(p)

\* Concurrent callers of the key whose record path is a directory.
NextDirKey == \E p \in Procs : CallStored(p) \/ StepDirKey(p)

SpecDirKey == InitDirKey /\ [][NextDirKey]_vars

\* The timeouts New has accepted, in nanoseconds: below 100, between the
\* multiples of 100, and from 100 * 100 on.
PollTimeouts == {1, 2, 99, 100, 101, 150, 199, 200, 250, 10000, 10099}

\* A lockFile call with one of these timeouts, the lock being busy.
InitPoll ==
  /\ proc = [p \in Procs |-> Idle]
  /\ dir = [n \in Names |-> 0]
  /\ data = [i \in Inodes |-> <<>>]
  /\ ext = [ino |-> 0, mode |-> "none"]
  /\ res = NoRes
  /\ fe = NoEach
  /\ db = NoDB
  /\ \E t \in PollTimeouts : lf = [NoLF EXCEPT !.pc = "call", !.timeout = t]

NextPoll == LockFileStart \/ PollTry \/ PollAgain \/ PollTimeout

SpecPoll == InitPoll /\ [][NextPoll]_vars

\* A call with a key that holds the path separator.
CallRejected(p) ==
  \E k \in KeyIds \ Keys, v \in Values :
    \/ GetOpen(p, k)
    \/ SetStart(p, k, v)
    \/ CreateOpen(p, k, v)
    \/ UpdateOpen(p, k, v)
    \/ DeleteOpen(p, k)

\* Calls made one after the other, and calls with a key that holds the path
\* separator at any time.
NextKeys ==
  \E p \in Procs :
    (Quiet /\ Call(p)) \/ CallRejected(p) \/ StepOn(p) \/ Remove(p)

SpecKeys == Init /\ [][NextKeys]_vars

\* No poll of a lock fails when the calls are made one after the other.
SeqNeverWaits == \A p \in Procs : proc[p].tries = 0

\* ------------------------------------------------------------------ claims
\* The values a complete write of the callers can leave in a record.
Written == {Full(v) : v \in Values}

\* Caller p is inside a Set or an Update of key k.
Writing(p, k) == proc[p].op \in {"Set", "Update"} /\ proc[p].key = k

\* C1: a Get of an existing record (value 1) that returns successfully while
\* Sets and Updates of the key run returns the initial value or the complete
\* value of one of the writes, never a partial or an empty one.
GetSeesCompleteValue ==
  (res.op = "Get" /\ res.key = Stored /\ res.ret = "ok")
    => res.got \in {Full(1)} \cup Written

\* C1 happens: a Get returns the value 2 of a write while another write of
\* the key is in progress.
GetSeesCompleteValueWitness ==
  /\ res.op = "Get" /\ res.key = Stored /\ res.ret = "ok"
  /\ res.got = Full(2)
  /\ \E q \in Procs : q # res.p /\ Writing(q, res.key)

\* A caller is between lockFile(file, true, ...) returning the lock on the
\* record file of k and the deferred lock.Unlock().
HoldsExclusive(p, k) ==
  proc[p].key = k /\ proc[p].lkm = "ex" /\ proc[p].op # "none"

\* C2: concurrent writers of one key are serialized: no two Set, Update,
\* Create or Delete calls on the same key hold the exclusive lock on the
\* key's record path at the same time.
WritersSerialized ==
  \A p, q \in Procs, k \in Keys :
    p # q => ~(HoldsExclusive(p, k) /\ HoldsExclusive(q, k))

\* Caller w performs the rename or the remove of k's record in this step.
Swaps(w, k) ==
  /\ proc[w].key = k
  /\ proc[w].pc \in {"rename", "remove"}
  /\ proc'[w].pc = "release"
  /\ proc'[w].ret = "ok"

\* C3: while a Get holds its shared lock on a record, no Set, Update, Create
\* or Delete of that key performs its rename or remove.
NoRenameUnderSharedLock ==
  [][\A g, w \in Procs, k \in Keys :
       (proc[g].op = "Get" /\ proc[g].key = k /\ proc[g].lkm = "sh")
         => ~Swaps(w, k)]_vars

\* The step is p's call of an operation that goes on after its first step.
Enters(p) == proc[p].pc = "idle" /\ proc'[p].pc # "idle"

\* Abs(k) after the step.
AbsNext(k) == IF dir'[Rec(k)] = 0 THEN NoFile ELSE data'[dir'[Rec(k)]]

\* The step leaves the table directory and the files as they are.
TableUnchanged == dir' = dir /\ data' = data

\* What a plain map from keys to values answers, checked step by step: m is
\* the map's value for the key, Abs(k), NoFile when the key is absent.
MapStep(p) ==
  LET r == res' IN
  /\ Enters(p) =>
       LET o == proc'[p].op
           m == Abs(proc'[p].key) IN
       /\ o = "Create" => m = NoFile
       /\ o \in {"Get", "Update", "Delete"} => m # NoFile
  /\ (r.p = p /\ r.imm) =>
       /\ TableUnchanged
       /\ \/ r.op = "Create" /\ r.ret = "exists" /\ Abs(r.key) # NoFile
          \/ r.op = "Update" /\ r.ret = "notfound" /\ Abs(r.key) = NoFile
          \/ r.op = "Get" /\ r.ret = "notfound" /\ Abs(r.key) = NoFile
          \/ r.op = "Delete" /\ r.ret = "ok" /\ Abs(r.key) = NoFile
  /\ (r.p = p /\ ~r.imm) =>
       /\ r.ret = "ok"
       /\ r.op \in {"Set", "Create", "Update"} => AbsNext(r.key) = Full(r.val)
       /\ r.op = "Delete" => AbsNext(r.key) = NoFile
       /\ r.op = "Get" => r.got = Abs(r.key) /\ AbsNext(r.key) = Abs(r.key)
  /\ proc[p].op = "Get" => AbsNext(proc[p].key) = Abs(proc[p].key)

\* C4: calls made one after the other answer as a plain map does: Create
\* stores v iff the key is absent, else AlreadyExists and the value is kept;
\* Update stores v iff the key is present, else NotFound; Set always stores
\* v; Delete always succeeds and removes the key; Get returns the value of
\* the last successful write, NotFound when the key is absent.
SequentialCallsMatchMap == [][\A p \in Procs : MapStep(p)]_vars

\* C4 happens: an Update has replaced the value a Create or a Set stored.
SequentialCallsMatchMapWitness ==
  /\ res.op = "Update" /\ res.ret = "ok" /\ res.val = 2
  /\ Abs(res.key) = Full(2)
  /\ Quiet

\* The other party holds its lock on the record file of key k.
Held(k, m) == ext.mode = m /\ ext.ino # 0 /\ ext.ino = dir[Rec(k)]

\* No temporary file is in the table directory once no call is in progress.
NoTempLeft == Quiet => \A p \in Procs : dir[Tmp(p)] = 0

\* C5: while another party holds an exclusive lock on an existing record,
\* Get, Set, Update and Delete of the key fail with LockTimeout, the record
\* keeps its value and no temporary file is left.
ExclusiveLockTimesOut ==
  ext.mode = "ex" =>
    /\ Held(Stored, "ex") /\ Abs(Stored) = Full(1)
    /\ NoTempLeft
    /\ (res.op \in {"Get", "Set", "Update", "Delete"} /\ res.key = Stored)
         => res.ret = "timeout" /\ dir[Tmp(res.p)] = 0

\* C5 happens: a Set has timed out under the exclusive lock.
ExclusiveLockTimesOutWitness ==
  /\ Held(Stored, "ex")
  /\ res.op = "Set" /\ res.key = Stored /\ res.ret = "timeout"
  /\ Quiet

\* C6: while another party holds a shared lock on an existing record, Get
\* succeeds with the record's value; Set, Update and Delete fail with
\* LockTimeout and leave the value and the table directory unchanged.
SharedLockAdmitsGet ==
  ext.mode = "sh" =>
    /\ Held(Stored, "sh") /\ Abs(Stored) = Full(1)
    /\ NoTempLeft
    /\ (res.op = "Get" /\ res.key = Stored)
         => res.ret = "ok" /\ res.got = Full(1)
    /\ (res.op \in {"Set", "Update", "Delete"} /\ res.key = Stored)
         => res.ret = "timeout" /\ dir[Tmp(res.p)] = 0

\* C6 happens: under the shared lock a Get has succeeded while the other
\* caller's write waits for the lock, and a Delete has timed out.
SharedLockAdmitsGetWitness ==
  /\ Held(Stored, "sh")
  /\ res.key = Stored
  /\ \/ /\ res.op = "Get" /\ res.ret = "ok"
        /\ \E q \in Procs : Writing(q, Stored) /\ proc[q].tries > 0
     \/ res.op = "Delete" /\ res.ret = "timeout"

\* C7: Create on a key whose record file exists returns AlreadyExists at its
\* first step, without waiting for a lock, also while another party holds an
\* exclusive lock on the record; the table is unchanged, so the value is kept
\* and there is no temporary file of the call.
CreateExistingFailsAtOnce ==
  [][\A p \in Procs, k \in Keys :
       (proc[p].pc = "idle" /\ dir[Rec(k)] # 0)
         => /\ ~(proc'[p].op = "Create" /\ proc'[p].key = k)
            /\ (res'.p = p /\ res'.op = "Create" /\ res'.key = k)
                 => /\ res'.ret = "exists" /\ res'.imm
                    /\ TableUnchanged
                    /\ proc'[p].pc = "idle" /\ dir'[Tmp(p)] = 0]_vars

\* C7 happens: Create has returned AlreadyExists at once while the other
\* party holds its exclusive lock on the record.
CreateExistingFailsAtOnceWitness ==
  /\ Held(Stored, "ex")
  /\ res.op = "Create" /\ res.key = Stored
  /\ res.ret = "exists" /\ res.imm

\* C8 as stated: while another party holds an exclusive lock on a record,
\* Create of the key fails with LockTimeout.
CreateTimesOutUnderLock ==
  (Held(res.key, "ex") /\ res.op = "Create") => res.ret = "timeout"

\* C8, amended: while another party holds an exclusive lock on an existing
\* record, Create of the key fails with AlreadyExists (not LockTimeout) and
\* leaves the record complete and no temporary file behind.
CreateExistsUnderLock ==
  (Held(res.key, "ex") /\ res.op = "Create") =>
    /\ res.ret = "exists"
    /\ Abs(res.key) = Full(1)
    /\ dir[Tmp(res.p)] = 0

\* C8 happens: a Create has returned under the exclusive lock.
CreateExistsUnderLockWitness ==
  Held(res.key, "ex") /\ res.op = "Create" /\ res.ret # "timeout" /\ Quiet

\* C9: Update of a key that has no record fails with NotFound and creates
\* neither the record file nor a temporary file: the table is unchanged.
UpdateAbsentNotFound ==
  [][\A p \in Procs, k \in Keys :
       (proc[p].pc = "idle" /\ dir[Rec(k)] = 0)
         => /\ ~(proc'[p].op = "Update" /\ proc'[p].key = k)
            /\ (res'.p = p /\ res'.op = "Update" /\ res'.key = k)
                 => /\ res'.ret = "notfound"
                    /\ TableUnchanged
                    /\ dir'[Rec(k)] = 0 /\ dir'[Tmp(p)] = 0]_vars

\* C9 happens: an Update has returned NotFound and the key has no record.
UpdateAbsentNotFoundWitness ==
  res.op = "Update" /\ res.ret = "notfound" /\ dir[Rec(res.key)] = 0

\* C10: Delete is idempotent: Delete of a key with no record succeeds at its
\* first step, without waiting for a lock, and changes nothing; every Delete
\* succeeds and leaves the key absent, so a Delete that follows a Delete of
\* the key succeeds too and leaves the table as the first one left it.
DeleteIdempotent ==
  [][\A p \in Procs, k \in Keys :
       /\ (proc[p].pc = "idle" /\ dir[Rec(k)] = 0)
            => /\ ~(proc'[p].op = "Delete" /\ proc'[p].key = k)
               /\ (res'.p = p /\ res'.op = "Delete" /\ res'.key = k)
                    => res'.ret = "ok" /\ res'.imm /\ TableUnchanged
       /\ (res'.op = "Delete" /\ res'.key = k)
            => res'.ret = "ok" /\ dir'[Rec(k)] = 0
       /\ (res.op = "Delete" /\ res.key = k /\ res'.p = p
           /\ res'.op = "Delete" /\ res'.key = k)
            => res'.ret = "ok" /\ res'.imm /\ TableUnchanged]_vars

\* C10 happens: a Delete of a key with no record has succeeded at once.
DeleteIdempotentWitness ==
  /\ res.op = "Delete" /\ res.ret = "ok" /\ res.imm
  /\ dir[Rec(res.key)] = 0

\* C11: Get, Set, Create, Update and Delete reject a key that holds the path
\* separator with InvalidKey at their first step: the call does not go on,
\* no file is created, changed or removed, no lock and no handle is taken
\* and no temporary file is made.
InvalidKeyRejected ==
  [][\A p \in Procs, k \in KeyIds :
       (proc[p].pc = "idle" /\ ContainsRune(KeyText(k), PathSeparator))
         => /\ \A q \in Procs : proc'[q].op # "none" => proc'[q].key # k
            /\ (res'.p = p /\ res'.key = k)
                 => /\ res'.ret = "invalid" /\ res'.imm
                    /\ TableUnchanged
                    /\ proc' = proc /\ ext' = ext]_vars

\* C11 happens: a Delete of "a/b" has been rejected while the record of a
\* key exists and another call is in progress.
InvalidKeyRejectedWitness ==
  /\ res.op = "Delete" /\ res.ret = "invalid"
  /\ KeyText(res.key) = <<"a", "/", "b">>
  /\ \E k \in Keys : dir[Rec(k)] # 0
  /\ ~Quiet

\* C12: every Get, Set, Create, Update and Delete call eventually returns,
\* also while another party holds a conflicting lock forever and whatever
\* the other callers do: a wait for a lock ends with LockTimeout, and the
\* callers do not deadlock on the temporary files' and the records' locks.
EveryCallReturns ==
  \A p \in Procs : (proc[p].pc # "idle") ~> (proc[p].pc = "idle")

\* C12 happens: a Get has given up with LockTimeout while the other party
\* holds its exclusive lock and another caller waits for the same lock.
EveryCallReturnsWitness ==
  /\ Held(Stored, "ex")
  /\ res.op = "Get" /\ res.ret = "timeout"
  /\ \E q \in Procs : proc[q].pc = "locktry" /\ proc[q].tries > 0

\* Caller p is inside a call that writes a temporary file.
InWrite(p) == proc[p].op \in {"Set", "Create", "Update"}

HoldsNoLock(p) == proc[p].lkm = "none" /\ ~proc[p].tlm

Renames(p) ==
  /\ proc[p].pc = "rename"
  /\ proc'[p].pc = "release"
  /\ proc'[p].ret = "ok"

\* Caller p gives up one of its locks in this step.
Unlocks(p) ==
  \/ proc[p].tlm /\ ~proc'[p].tlm
  \/ proc[p].lkm = "ex" /\ proc'[p].lkm # "ex"

\* C15: a Set, Update or Create renames its temporary file onto the record
\* only when the temporary file holds the whole value and while the caller
\* holds the exclusive lock it took on the temporary file and the one it took
\* on the record path; the rename keeps both locks, and a writer gives a lock
\* up only after its rename, or when it gives up without a rename.
RenameInOrder ==
  [][\A p \in Procs :
       /\ Renames(p) =>
            /\ InWrite(p)
            /\ proc[p].tl # 0 /\ dir[Tmp(p)] = proc[p].tl
            /\ data[proc[p].tl] = Full(proc[p].val)
            /\ proc[p].tlm /\ HoldsExclusive(p, proc[p].key)
            /\ proc'[p].tlm /\ proc'[p].lkm = "ex"
            /\ AbsNext(proc[p].key) = Full(proc[p].val)
       /\ (InWrite(p) /\ Unlocks(p)) =>
            \/ proc[p].pc = "release"
            \/ res'.p = p /\ res'.ret = "timeout"]_vars

\* C15 happens: an Update has renamed its temporary file, still holds both
\* locks, and the record holds its value.
RenameInOrderWitness ==
  \E p \in Procs :
    /\ proc[p].op = "Update" /\ proc[p].pc = "release" /\ proc[p].ret = "ok"
    /\ proc[p].tlm /\ proc[p].lkm = "ex"
    /\ Abs(proc[p].key) = Full(proc[p].val)

\* Another party holds a lock on the record file of key k.
HeldByOther(k) == Held(k, "sh") \/ Held(k, "ex")

\* No call on a key waits for a lock, or gives up with LockTimeout, unless
\* another party holds a lock on the record of that very key.
WaitsForOwnKeyOnly ==
  /\ \A p \in Procs : proc[p].tries > 0 => HeldByOther(proc[p].key)
  /\ res.ret = "timeout" => HeldByOther(res.key)

\* Caller p moves in this step, inside a call on key k or starting one.
StepsOn(p, k) ==
  /\ proc'[p].pc # proc[p].pc
  /\ IF proc[p].pc = "idle" THEN proc'[p].key = k ELSE proc[p].key = k

RecordsThere ==
  {jv \in (1..NumRecords) \X Values :
     \E i \in 1..Len(fe.tbl) : fe.tbl[i] = RecordFile(jv[1], jv[2])}
OthersThere ==
  {i \in 1..Len(fe.tbl) : \E o \in 1..Len(Others) : fe.tbl[i] = Others[o]}

\* ForEach has returned and nothing went wrong around it: the directory was
\* listed, feFunc returned nil every time, nobody holds a lock.
EachUndisturbed == fe.pc = "done" /\ fe.fault = "none" /\ fe.locked = {}

\* C17: a ForEach of a table directory with N record files and M other
\* entries (files without the record extension, directories), that nothing
\* disturbs, returns nil after it called feFunc exactly N times, exactly
\* once for each record, with the record's key and value.
EachVisitsRecords ==
  EachUndisturbed =>
    /\ fe.ret = "ok"
    /\ Len(fe.calls) = Cardinality(RecordsThere)
    /\ \A jv \in RecordsThere :
         Cardinality({c \in 1..Len(fe.calls) :
            fe.calls[c] = <<RecordKey(jv[1]), Full(jv[2])>>}) = 1

\* C17 happens: ForEach has returned from a directory with three records or
\* more, among them the one of the key "a.kv", and with all the other
\* entries.
EachVisitsRecordsWitness ==
  /\ EachUndisturbed
  /\ Cardinality(RecordsThere) >= 3
  /\ \E v \in Values : <<2, v>> \in RecordsThere
  /\ Cardinality(OthersThere) = Len(Others)

\* The next entry of the loop is the record file that another party holds
\* its exclusive lock on, so that the Get of it fails with LockTimeout.
AtLockedRecord ==
  /\ fe.pc = "entry" /\ fe.files # <<>>
  /\ Head(fe.files).name \in fe.locked

\* C18: an error of feFunc, of the directory listing (os.Open, Readdir) or
\* of the Get of a listed record ends ForEach in that very step: ForEach
\* returns that error, feFunc is not called again (after its error, and not
\* at all in the step of a failing listing or Get), and ForEach takes no
\* step after it has returned.
EachStopsAtError ==
  [][/\ fe.pc # "done"
     /\ (fe'.fault # "none" \/ AtLockedRecord) => fe'.pc = "done"
     /\ fe'.fault = "callback" =>
          fe'.ret = "cberr" /\ Len(fe'.calls) = Len(fe.calls) + 1
     /\ fe'.fault = "open" => fe'.ret = "patherr" /\ fe'.calls = <<>>
     /\ fe'.fault = "readdir" => fe'.ret = "ioerr" /\ fe'.calls = fe.calls
     /\ AtLockedRecord => fe'.ret = "timeout" /\ fe'.calls = fe.calls]_vars

\* C18 happens: ForEach has returned the LockTimeout of a Get after it
\* called feFunc for a record and before it came to two others.
EachStopsAtErrorWitness ==
  /\ fe.pc = "done" /\ fe.ret = "timeout"
  /\ Len(fe.calls) >= 1
  /\ Cardinality(RecordsThere) >= Len(fe.calls) + 3

\* C19: ForEach returns, whatever the number of records is next to readNum,
\* and it never comes to a record twice; when it returns nil it has come to
\* every record, and for a table without records it has called feFunc not
\* once and returns nil unless the listing failed.
EachTerminates ==
  /\ <>(fe.pc = "done")
  /\ [](\A a, b \in 1..Len(fe.calls) :
          a # b => fe.calls[a][1] # fe.calls[b][1])
  /\ []((fe.pc = "done" /\ fe.ret = "ok")
          => Len(fe.calls) = Cardinality(RecordsThere))
  /\ []((fe.pc = "done" /\ RecordsThere = {})
          => fe.calls = <<>> /\ (fe.fault = "none" => fe.ret = "ok"))

\* C19 happens: ForEach has returned nil from a directory of nothing but
\* records, more of them than one Readdir hands over.
EachTerminatesWitness ==
  /\ fe.pc = "done" /\ fe.ret = "ok"
  /\ OthersThere = {}
  /\ Len(fe.calls) > readNum

\* The directories below the root whose names end in the table suffix.
TableDirs ==
  {d \in db.dirs : /\ HasPrefix(d, Clean(db.root) \o <<PathSeparator>>)
                   /\ HasSuffix(d, tblExt)}

\* C20: Tables returns the root table, with the empty name, and one table
\* for every directory below the root whose name ends in the table suffix,
\* each once and nothing else; every table that Table(name) made is in the
\* result with the name, the path and the timeout that Table(name) gave it.
TablesFindsAll ==
  db.listed =>
    /\ \A i, j \in 1..Len(db.found) : i # j => db.found[i].path # db.found[j].path
    /\ {db.found[i].path : i \in 1..Len(db.found)} = {db.root} \cup TableDirs
    /\ \E i \in 1..Len(db.found) :
         db.found[i] = [name |-> <<>>, path |-> db.root, timeout |-> db.timeout]
    /\ \A t \in db.tables : \E i \in 1..Len(db.found) : db.found[i] = t

\* The same for a database whose root path New was given as filepath.Clean
\* leaves it.
TablesFindsAllCleanRoot == db.root = Clean(db.root) => TablesFindsAll

\* A directory at or below the root cannot be read.
DeniedBelowRoot ==
  \E d \in db.denied :
    d = Clean(db.root) \/ HasPrefix(d, Clean(db.root) \o <<PathSeparator>>)

\* C21: when the walk of Tables fails at a directory, Tables returns an
\* error and no tables at all, whatever it had found before the failure.
TablesFailsEmpty ==
  [][(~db.listed /\ db'.listed /\ DeniedBelowRoot)
       => (db'.err # "nil" /\ db'.found = <<>>)]_vars

\* Tables has failed below a root that could be read: the root table, and
\* a table that Table had made, were found before the failure.
TablesFailsEmptyWitness ==
  /\ db.listed
  /\ db.err # "nil"
  /\ Clean(db.root) \notin db.denied
  /\ \E t \in db.tables : t.path \in db.dirs /\ Ancestors(t.path) \cap db.denied = {}

\* The cache holds a Table under name.
Cached(name) == \E t \in db.tables : t.name = name

\* Table(name) returns to p in this step, having found name in the cache
\* when it was called.
ReturnsCached(p, name) ==
  /\ db.call[p].pc = "idle"
  /\ Cached(name)
  /\ db'.got # db.got
  /\ db'.got.p = p /\ db'.got.op = "Table" /\ db'.got.name = name

\* C22: Table(name) for a name that is in the cache returns the very Table
\* that is cached, with no error, and leaves the file system alone: no
\* directory is made and none is looked at, whether or not the directory of
\* the table is still there.
CachedTableReturned ==
  [][\A p \in Procs, name \in TableNames :
       ReturnsCached(p, name) =>
         /\ db'.got.err = "nil"
         /\ db'.got.tbl \in db.tables /\ db'.got.tbl.name = name
         /\ <<name, db'.got.by>> \in db.owner
         /\ db'.dirs = db.dirs /\ db'.files = db.files
         /\ db'.tables = db.tables /\ db'.owner = db.owner]_vars

\* A caller has got the Table that another caller had stored, and the
\* directory of the table is gone.
CachedTableReturnedWitness ==
  /\ db.got.op = "Table" /\ db.got.err = "nil"
  /\ db.got.by # db.got.p
  /\ db.got.tbl \in db.tables
  /\ db.got.tbl.path \notin db.dirs

\* A caller is inside Table(name).
InTable(name) ==
  \E p \in Procs : db.call[p].pc # "idle" /\ db.call[p].name = name

\* What the cache holds under name: the Tables and who allocated them.
Entries(name) == {t \in db.tables : t.name = name}
Owners(name) == {o \in db.owner : o[1] = name}

\* C23: callers that call Table(name) at the same time for a name that is
\* not cached each get a Table with the same name, path and timeout, the one
\* the cache holds; the cache holds one entry for the name; and once they
\* have all returned, the entry stays the same and every later Table(name)
\* gets it without making another.
RacingTablesAgree ==
  [][\A name \in TableNames :
       /\ Cardinality(Entries(name)') <= 1 /\ Cardinality(Owners(name)') <= 1
       /\ Cached(name) => Entries(name)' = Entries(name)
       /\ (db'.got # db.got /\ db'.got.op = "Table" /\ db'.got.name = name)
            => /\ db'.got.err = "nil"
               /\ Entries(name)' = {db'.got.tbl}
               /\ db'.got.tbl = [name |-> name,
                                 path |-> Join(db.root, name \o tblExt),
                                 timeout |-> db.timeout]
       /\ (Cached(name) /\ ~InTable(name))
            => /\ ~InTable(name)'
               /\ Owners(name)' = Owners(name)
               /\ (db'.got # db.got /\ db'.got.name = name)
                    => <<name, db'.got.by>> \in db.owner]_vars

\* A caller has returned the Table it stored while another caller, who had
\* not found the name in the cache either, is about to store its own.
RacingTablesAgreeWitness ==
  \E p, q \in Procs :
    /\ p # q
    /\ db.got.op = "Table" /\ db.got.p = p /\ db.got.by = p
    /\ db.call[q].pc = "Store" /\ db.call[q].name = db.got.name

\* The names the cache holds.
CachedNameSet == {t.name : t \in db.tables}

\* C24: the cache changes only when a Table(name) that succeeds stores its
\* Table under name; no name ever leaves it; a Table(name) that fails stores
\* nothing and returns no Table; Tables and the record operations leave the
\* cache as it is.
CacheOnlyGrows ==
  [][/\ CachedNameSet \subseteq CachedNameSet'
     /\ (db'.tables # db.tables \/ db'.owner # db.owner)
          => \E p \in Procs :
               /\ db.call[p].pc = "Store"
               /\ db'.got = Got(p, "Table", db.call[p].name, "nil",
                                db.call[p].tbl, p)
               /\ db'.tables = {t \in db.tables : t.name # db.call[p].name}
                                 \cup {db.call[p].tbl}
               /\ CachedNameSet' = CachedNameSet \cup {db.call[p].name}
     /\ (db'.got # db.got /\ db'.got.op = "Table" /\ db'.got.err # "nil")
          => /\ db'.tables = db.tables /\ db'.owner = db.owner
             /\ db'.got.tbl = NoTable
             /\ db'.got.name \notin CachedNameSet'
     /\ ((~db.listed /\ db'.listed) \/ (db'.got # db.got /\ db'.got.op \in WriteOps))
          => (db'.tables = db.tables /\ db'.owner = db.owner)]_vars

\* Table(name) has failed while the cache holds other tables, one of which
\* has a record.
CacheOnlyGrowsWitness ==
  /\ db.got.op = "Table" /\ db.got.err # "nil"
  /\ db.tables # {}
  /\ \E t \in db.tables : TableGet(t, KeyText(Stored)) # 0

\* A Set, Create, Update or Delete of the key Stored on the table t1
\* returns in this step.
WritesTo(t1) ==
  /\ db'.got # db.got
  /\ db'.got.op \in WriteOps
  /\ db'.got.tbl = t1

\* Two of the tables a caller can hold are different tables: they have
\* different names, or one of them is the root table.
Different(t1, t2) ==
  /\ t1 # t2
  /\ t1.name # t2.name \/ t1 = RootTable \/ t2 = RootTable

\* C25: the root table and the tables made under different names have
\* different directories, and a Set, Create, Update or Delete of a key in
\* one of them leaves what Get of that key returns in every other one as it
\* was.
KeyspacesApart ==
  [][\A t1, t2 \in Handles :
       (WritesTo(t1) /\ Different(t1, t2))
         => /\ t1.path # t2.path
            /\ ValueAt(db'.recs, RecordPath(t2, KeyText(Stored)))
                 = TableGet(t2, KeyText(Stored))]_vars

\* The same for tables whose directories are different.
KeyspacesApartByPath ==
  [][\A t1, t2 \in Handles :
       (WritesTo(t1) /\ t1.path # t2.path)
         => ValueAt(db'.recs, RecordPath(t2, KeyText(Stored)))
              = TableGet(t2, KeyText(Stored))]_vars

\* C26: New with a timeout of zero or less returns the invalid-timeout
\* error and no Database, and makes no directory; with a timeout above zero
\* it makes the root directory when it is missing, and returns an error and
\* no Database when the root path is there but is no directory.
NewChecksTimeout ==
  [][(db'.got # db.got /\ db'.got.op = "New") =>
       LET t == db'.got.arg
           path == Clean(db'.got.name) IN
       /\ t <= 0 => /\ db'.got.err = "Invalid lock timeout"
                    /\ db'.root = <<>> /\ db'.got.tbl = NoTable
                    /\ db'.dirs = db.dirs /\ db'.files = db.files
       /\ (t > 0 /\ path \in db.files)
            => /\ db'.got.err \notin {"nil", "Invalid lock timeout"}
               /\ db'.root = <<>> /\ db'.got.tbl = NoTable
               /\ db'.dirs = db.dirs /\ db'.files = db.files
       /\ (t > 0 /\ path \notin db.files)
            => /\ db'.got.err = "nil"
               /\ path \in db'.dirs
               /\ db'.root = db'.got.name /\ db'.timeout = t]_vars

\* New has refused a timeout that is not above zero, and the root directory,
\* which was missing, is missing still.
NewChecksTimeoutWitness ==
  /\ db.got.op = "New" /\ db.got.arg <= 0
  /\ db.got.err = "Invalid lock timeout"
  /\ db.root = <<>>
  /\ db.dirs = {} /\ db.files = {}

\* C27: a Table gets the timeout that the Database has when newTable makes
\* it; the cached Tables keep their timeout whatever the timeout of the
\* Database becomes, and Table(name) returns them with it.
TimeoutFixedAtCreation ==
  [][/\ \A p \in Procs :
          (db.call[p].pc = "newTable" /\ db'.call[p].pc = "Store")
            => db'.call[p].tbl.timeout = db.timeout
     /\ \A p \in Procs :
          (db.call[p].pc = "Store" /\ db'.call[p].pc = "idle")
            => /\ db'.got.tbl = db.call[p].tbl
               /\ db.call[p].tbl \in db'.tables
     /\ \A t \in db.tables : t \in db'.tables
     /\ \A p \in Procs, name \in TableNames :
          ReturnsCached(p, name)
            => \E t \in db.tables : t.name = name /\ db'.got.tbl = t]_vars

\* Table(name) has returned a cached Table whose timeout is not the one the
\* Database has now.
TimeoutFixedAtCreationWitness ==
  /\ db.got.op = "Table" /\ db.got.err = "nil"
  /\ db.got.by # db.got.p
  /\ db.got.tbl \in db.tables
  /\ db.got.tbl.timeout # db.timeout

\* The directory that stands where the record file of key k would be.
DirThere(k) == dir[Rec(k)] # 0 /\ data[dir[Rec(k)]] = DirMark

\* C28: when the path of a key's record file is a directory, Get, Set,
\* Create, Update and Delete of the key each return an error, which for
\* Delete is InvalidKey, returned at once with no lock taken; the directory
\* is still there afterwards and no temporary file is left.
DirKeyFails ==
  /\ DirThere(Stored)
  /\ NoTempLeft
  /\ (res.op \in {"Get", "Set", "Create", "Update", "Delete"} /\ res.key = Stored)
       => /\ res.ret \notin {"ok", "none"}
          /\ dir[Tmp(res.p)] = 0
          /\ HoldsNoLock(res.p)
          /\ res.op = "Delete" => (res.ret = "invalid" /\ res.imm)

\* Each of the five operations has returned for the key whose record path
\* is a directory: this one is a Set, which had written its temporary file.
DirKeyFailsWitness ==
  /\ DirThere(Stored)
  /\ res.op = "Set" /\ res.key = Stored /\ res.ret # "ok"
  /\ ~res.imm

\* C29: for every timeout above zero lockFile polls at the interval
\* timeout/100, which is above zero, and tries the lock 100 times, or once
\* more, at most before it gives up.
PollsBounded ==
  lf.pc \notin {"none", "call"} =>
    /\ lf.delay > 0
    /\ lf.delay * PollsPerTimeout <= lf.timeout
    /\ lf.tries <= PollsPerTimeout + 1

\* The same for the timeouts of 100 * 100 nanoseconds and more.
PollsBoundedFrom10us ==
  lf.timeout >= PollsPerTimeout * PollsPerTimeout => PollsBounded

\* A lockFile call has given up after 101 attempts.
PollsBoundedFrom10usWitness ==
  /\ lf.pc = "timeout"
  /\ lf.timeout >= PollsPerTimeout * PollsPerTimeout
  /\ lf.tries = PollsPerTimeout + 1

\* The deferred calls of p's Set, Create or Update run in this step and the
\* operation returns.
Releases(p) ==
  /\ proc[p].pc = "release" /\ InWrite(p)
  /\ proc'[p].pc = "idle"
  /\ res'.p = p

\* C30: no operation swallows a failure: when a step inside it fails, the
\* removal of the temporary file during the clean-up among them, the
\* operation returns an error and not success.
NoFailureSwallowed ==
  [][\A p \in Procs :
       (Releases(p) /\ RemoveTmpFails(p)) => res'.ret # "ok"]_vars

\* C31: with concurrent Sets and Updates of an existing key and no Delete,
\* the record holds the value of the call whose rename came last: each
\* successful rename makes its caller's value the record's value, no other
\* step changes it, a call returns success exactly when it has renamed, and
\* a call that returns an error has not.
LastRenameWins ==
  [][/\ \A p \in Procs :
          Renames(p) => AbsNext(proc[p].key) = Full(proc[p].val)
     /\ (\A p \in Procs : ~Renames(p)) => AbsNext(Stored) = Abs(Stored)
     /\ (res'.op \in {"Set", "Update"} /\ res'.key = Stored)
          => (res'.ret = "ok" <=> proc[res'.p].ret = "ok")]_vars

\* A Set or an Update has given up on the lock and returned an error while
\* the record holds the value another call renamed into place, not its own.
LastRenameWinsWitness ==
  /\ res.op \in {"Set", "Update"} /\ res.key = Stored
  /\ res.ret \notin {"ok", "none"}
  /\ Abs(Stored) \in Written \ {Full(1), Full(res.val)}

\* Caller p is inside a Get and holds the handle that os.Open gave it.
Reading(p) == proc[p].op = "Get" /\ proc[p].fh # 0

\* C32: a successful Get returns a value that the record had at an instant
\* between the Get's call and its return, namely the one it had when the
\* Get was called: os.Open in the first step takes the file that is the
\* record then, the content of that file stays as it is while the Get
\* holds the handle, and the Get returns that content. A Get called after
\* a Set has returned so returns the Set's value or a later one.
GetReturnsValueAtCall ==
  [][\A p \in Procs :
       /\ (Enters(p) /\ proc'[p].op = "Get")
            => /\ dir[Rec(proc'[p].key)] # 0
               /\ data'[proc'[p].fh] = Abs(proc'[p].key)
       /\ (Reading(p) /\ proc'[p].op = "Get")
            => data'[proc'[p].fh] = data[proc[p].fh]
       /\ (Reading(p) /\ res'.p = p /\ res'.ret = "ok")
            => res'.got = data[proc[p].fh]]_vars

\* A Get has returned the value the record had when it was called, which a
\* rename has replaced since.
GetReturnsValueAtCallWitness ==
  /\ res.op = "Get" /\ res.key = Stored /\ res.ret = "ok"
  /\ res.got # Abs(Stored)

\* Concurrent Creates and Gets of one key of an empty table, nobody else.
NextCreate ==
  \E p \in Procs :
    \/ GetOpen(p, Stored)
    \/ \E v \in Values : CreateOpen(p, Stored, v)
    \/ StepRW(p)

SpecCreate == Init /\ [][NextCreate]_vars

\* C33: a Get that runs while Creates of a key that had no record do
\* returns NotFound, LockTimeout or the complete value of a Create, never
\* an empty value or another value that nobody wrote.
CreateAtomicForReaders ==
  res.op = "Get"
    => \/ res.ret \in {"notfound", "timeout"}
       \/ res.ret = "ok" /\ res.got \in Written

\* C34: a Create of a key with no record that fails after its
\* os.OpenFile, at the lock probe or in writeTemp, leaves no record file
\* for the key, so that a following Get finds none.
FailedCreateLeavesNothing ==
  (res.op = "Create" /\ res.ret # "ok" /\ ~res.imm) => dir[Rec(res.key)] = 0

\* A step inside an Update or a Delete that has been called.
StepGone(p) ==
  \/ LockOpen(p)
  \/ LockTry(p)
  \/ LockTimeout(p)
  \/ TempFile(p)
  \/ TLockTry(p)
  \/ Write(p)
  \/ Rename(p)
  \/ Release(p)
  \/ Remove(p)

\* Concurrent Updates and Deletes of an existing record, nobody else.
NextGone ==
  \E p \in Procs :
    \/ \E v \in Values : UpdateOpen(p, Stored, v)
    \/ DeleteOpen(p, Stored)
    \/ StepGone(p)

SpecGone == InitRW /\ [][NextGone]_vars

\* C35: Update never brings a record into existence: with Updates and
\* Deletes of an existing record and no Create or Set, a record that a Delete
\* has removed stays absent while no Delete is in progress, so that it does
\* not exist once all calls have returned.
UpdateNeverRevives ==
  [][(dir[Rec(Stored)] = 0 /\ \A p \in Procs : proc[p].op # "Delete")
       => dir'[Rec(Stored)] = 0]_vars

\* Nobody but callers of Create is at work on key k.
CreatesOnly(k) ==
  \A q \in Procs : proc[q].key = k => proc[q].op \in {"none", "Create"}

\* Concurrent Creates of the keys of an empty table; a Get or a Delete of a
\* key is called when no operation on the key is in progress, and no Create
\* of the key is called while it runs.
NextExcl ==
  \E p \in Procs :
    \/ \E k \in Keys, v \in Values : CreatesOnly(k) /\ CreateOpen(p, k, v)
    \/ \E k \in Keys : Free(k) /\ GetOpen(p, k)
    \/ \E k \in Keys : Free(k) /\ DeleteOpen(p, k)
    \/ StepOn(p)
    \/ Remove(p)

SpecExcl == Init /\ [][NextExcl]_vars

\* Caller p is inside a Create of key k, past its os.OpenFile.
Creating(p, k) == proc[p].op = "Create" /\ proc[p].key = k

\* C36: of concurrent Creates of a key with no record, nothing else at work
\* on the key, one gets past os.OpenFile and returns success, every other
\* returns AlreadyExists at once; the one rename puts the value of the
\* successful call in place of the empty file, no other Create changes it,
\* and a Get afterwards returns it. A second Create of the key succeeds only
\* after a Delete has removed the record.
OneCreateWins ==
  [][/\ \A p, q \in Procs, k \in Keys :
          (Creating(p, k)' /\ Creating(q, k)') => p = q
     /\ res'.op = "Create"
          => IF res'.imm
             THEN res'.ret = "exists" /\ dir[Rec(res'.key)] # 0
             ELSE res'.ret = "ok" /\ AbsNext(res'.key) = Full(res'.val)
     /\ \A p \in Procs :
          (Renames(p) /\ proc[p].op = "Create")
            => /\ Abs(proc[p].key) = <<>>
               /\ AbsNext(proc[p].key) = Full(proc[p].val)
     /\ \A k \in Keys :
          (Abs(k) \in Written /\ \A q \in Procs : proc[q].op # "Delete")
            => AbsNext(k) = Abs(k)
     /\ (res'.op = "Get" /\ res'.ret = "ok")
          => res'.got = AbsNext(res'.key) /\ res'.got \in Written]_vars

\* A Create has returned AlreadyExists while the Create that made the file
\* is still at work.
OneCreateWinsWitness ==
  /\ res.op = "Create" /\ res.ret = "exists"
  /\ \E q \in Procs : Creating(q, res.key) /\ q # res.p

\* Caller p is at a poll of a lock: of the record file's or of its
\* temporary file's.
Polling(p) == proc[p].pc \in {"locktry", "tlocktry"}

\* The file whose lock caller p polls, and the mode it asks for.
PolledFile(p) == IF proc[p].pc = "locktry" THEN proc[p].lk ELSE proc[p].tl

PolledMode(p) ==
  IF proc[p].pc = "locktry" THEN LockMode(proc[p].op) ELSE "ex"

\* A party other than p holds a lock on file i that stands in the way of a
\* lock of mode m.
ConflictByOther(p, i, m) ==
  \/ \E q \in Procs \ {p} :
       \/ proc[q].lk = i /\ proc[q].lkm = "ex"
       \/ proc[q].tl = i /\ proc[q].tlm
       \/ proc[q].lk = i /\ proc[q].lkm = "sh" /\ m = "ex"
  \/ ext.ino = i /\ (ext.mode = "ex" \/ (ext.mode = "sh" /\ m = "ex"))

\* A poll of caller p fails in this step and p goes on polling.
PollFails(p) ==
  /\ Polling(p) /\ proc'[p].pc = proc[p].pc
  /\ proc'[p].tries = proc[p].tries + 1

\* Caller p returns LockTimeout in this step.
GivesUp(p) == Polling(p) /\ res'.p = p /\ res'.ret = "timeout"

\* Caller p holds, after the step, the lock it polled for.
PollWins(p) ==
  IF proc[p].pc = "locktry" THEN proc'[p].lkm = LockMode(proc[p].op)
  ELSE proc'[p].tlm

UncontendedCallsSucceed ==
  (res.op # "none" /\ ~HeldByOther(res.key))
    => /\ res.op \in {"Set", "Delete"} => res.ret = "ok"
       /\ res.op \in {"Get", "Update"}
            => res.ret = "ok" \/ (res.ret = "notfound" /\ res.imm)

\* ------------------------------------------- ForEach among other callers
\* strings.LastIndex(s, c) for a one-character c, counted from 1; 0 for none.
LastIndex(s, c) ==
  LET at == {i \in 1..Len(s) : s[i] = c} IN
  IF at = {} THEN 0 ELSE CHOOSE i \in at : \A j \in at : j <= i

\* The name ioutil.TempFile(dir, pattern) makes: the random string comes in
\* the place of the last "*" of pattern, at the end when there is none.
TempName(pattern, rnd) ==
  LET pos == LastIndex(pattern, "*") IN
  IF pos = 0 THEN pattern \o rnd
  ELSE SubSeq(pattern, 1, pos - 1) \o rnd
         \o SubSeq(pattern, pos + 1, Len(pattern))

\* The name of caller q's temporary file, made from key+recExt; a file that
\* is found under that name and is not q's temporary file is one that a
\* Get of the key TmpKey(q) has made anew (flock opens with O_CREATE).
TmpText(q) ==
  TempName((IF proc[q].tl # 0 /\ dir[Tmp(q)] = proc[q].tl
            THEN KeyText(proc[q].key) ELSE KeyText(TmpKey(q)) \o <<"*">>)
           \o recExt, Random(q))

\* dir.Name() of the directory entry n, and the key whose record file n is.
NameText(n) == IF n[1] = "kv" THEN KeyText(n[2]) \o recExt ELSE TmpText(n[2])
KeyOf(n) == IF n[1] = "kv" THEN n[2] ELSE TmpKey(n[2])

\* The goroutine that calls ForEach; its Gets are the calls of this caller.
EachProc == 1

\* dh.Readdir(readNum) on the table directory that the other callers work
\* in: entries that no earlier call has returned, at most readNum of them,
\* in any order; none and io.EOF when no entry is left.
ScanReaddir ==
  /\ fe.pc = "readdir"
  /\ LET rest == {n \in Names : dir[n] # 0 /\ n \notin fe.seen}
         entry(n) == [name |-> NameText(n), isDir |-> IsDir(dir[n]), at |-> n] IN
     IF rest = {}
     THEN fe' = [fe EXCEPT !.pc = "entry", !.files = <<>>, !.err = "EOF"]
     ELSE \E len \in 1..readNum : \E f \in [1..len -> rest] :
            /\ \A i, j \in 1..len : f[i] = f[j] => i = j
            /\ fe' = [fe EXCEPT !.pc = "entry",
                        !.files = [i \in 1..len |-> entry(f[i])],
                        !.seen = @ \cup {f[i] : i \in 1..len}]
  /\ UNCHANGED <<dir, data, ext, proc, res, db, lf>>

\* The loop over files, up to the call of Get: an entry that is no record
\* is passed over, the key of a record is what TrimSuffix leaves of its
\* name. After the last entry the outer loop goes on, or ForEach returns
\* nil when err is io.EOF.
ScanEntry ==
  /\ fe.pc = "entry"
  /\ fe' = IF fe.files = <<>>
           THEN IF fe.err = "EOF" THEN EachReturn("ok")
                ELSE [fe EXCEPT !.pc = "readdir"]
           ELSE IF ~IsRecord(Head(fe.files))
           THEN [fe EXCEPT !.files = Tail(@)]
           ELSE [fe EXCEPT !.pc = "get", !.key = KeyOf(Head(fe.files).at),
                           !.files = Tail(@)]
  /\ UNCHANGED <<dir, data, ext, proc, res, db, lf>>

\* table.Get(key): the first step of the Get, os.Open.
ScanGet ==
  /\ fe.pc = "get"
  /\ res.p # EachProc
  /\ GetOpen(EachProc, fe.key)

\* The Get has returned: its error is returned, or feFunc is called with
\* the key and the value.
ScanGot ==
  /\ fe.pc = "get"
  /\ res.p = EachProc
  /\ fe' = IF res.ret # "ok" THEN EachReturn(res.ret)
           ELSE [fe EXCEPT !.pc = "callback",
                           !.calls = << <<KeyText(fe.key), res.got>> >>]
  /\ res' = NoRes
  /\ UNCHANGED <<dir, data, ext, proc, db, lf>>

\* feFunc returns, nil or an error, which ForEach returns.
ScanCallback ==
  /\ fe.pc = "callback"
  /\ \E e \in {"nil", "cberr"} :
       fe' = IF e = "nil" THEN [fe EXCEPT !.pc = "entry"]
             ELSE [EachReturn(e) EXCEPT !.fault = "callback"]
  /\ UNCHANGED <<dir, data, ext, proc, res, db, lf>>

\* ForEach has no name of a temporary file of caller p before it: the name
\* of the temporary file of p's next call is a new one.
NotListed(p) ==
  /\ \A i \in 1..Len(fe.files) : fe.files[i].at # Tmp(p)
  /\ fe.pc \in {"get", "callback"} => fe.key # TmpKey(p)

\* The record of key Stored exists with the value 1; ForEach is called.
InitScan ==
  /\ proc = [p \in Procs |-> Idle]
  /\ dir = [n \in Names |-> IF n = Rec(Stored) THEN 1 ELSE 0]
  /\ data = [i \in Inodes |-> IF i = 1 THEN Full(1) ELSE <<>>]
  /\ ext = [ino |-> 0, mode |-> "none"]
  /\ res = NoRes
  /\ lf = NoLF
  /\ db = NoDB
  /\ fe = [NoEach EXCEPT !.pc = "open"]

\* A ForEach and the calls of the other callers, on any key and with one
\* value. The step that takes the result of a Get follows the Get's return
\* at once.
NextScan ==
  \/ EachOpen
  \/ ScanReaddir
  \/ ScanEntry
  \/ ScanGet
  \/ ScanGot
  \/ ScanCallback
  \/ \E p \in Procs \ {EachProc} :
       res.p # EachProc /\ NotListed(p) /\ CallOn(p, Keys, {NumValues})
  \/ \E p \in Procs : res.p # EachProc /\ Step(p)

SpecScan == InitScan /\ [][NextScan]_vars

\* C38: ForEach holds no lock while the callback runs: the Get has returned
\* and has released its shared lock before feFunc is called, and ForEach
\* holds a lock only inside a Get, at the read of that one record.
NoLockInCallback ==
  /\ fe.pc = "callback"
       => proc[EachProc].pc = "idle" /\ HoldsNoLock(EachProc)
  /\ ~HoldsNoLock(EachProc)
       => /\ fe.pc = "get" /\ proc[EachProc].pc = "read"
          /\ proc[EachProc].lkm = "sh" /\ ~proc[EachProc].tlm
          /\ proc[EachProc].key = fe.key

\* The callback runs with a record while another caller holds the
\* exclusive lock of that record.
NoLockInCallbackWitness ==
  /\ fe.pc = "callback"
  /\ \E q \in Procs \ {EachProc} :
       proc[q].key = fe.key /\ proc[q].lkm = "ex"

\* C39: a ForEach that runs while Sets, Creates and Updates do never hands
\* a temporary file to the callback: no temporary file in the table
\* directory has a name that ends in recExt, and every key the callback is
\* called with is the key of a record file.
NoTempFileInCallback ==
  /\ \A q \in Procs :
       (proc[q].tl # 0 /\ dir[Tmp(q)] = proc[q].tl)
         => ~IsRecord([name |-> TmpText(q), isDir |-> FALSE])
  /\ fe.pc = "callback" => fe.key \in Keys

\* The callback is called with the key that the name of a temporary file
\* gives, and with what the Get read of that file.
TempFileInCallback ==
  /\ fe.pc = "callback" /\ fe.key \notin Keys
  /\ fe.calls = << <<KeyText(fe.key), <<>> >> >>

\* The temporary file of a key that holds no "*" has a name that does not
\* end in recExt: ForEach passes it over.
PlainKeyTempPassedOver ==
  \A q \in Procs :
    (/\ proc[q].tl # 0 /\ dir[Tmp(q)] = proc[q].tl
     /\ ~ContainsRune(KeyText(proc[q].key), "*"))
      => ~IsRecord([name |-> TmpText(q), isDir |-> FALSE])

\* C40: every handle an operation opens is closed when the operation has
\* returned: a caller outside a call has no file handle and no flock handle
\* open, and a ForEach that has returned has closed the handle of the table
\* directory.
HandlesClosed ==
  /\ \A p \in Procs :
       proc[p].pc = "idle"
         => proc[p].fh = 0 /\ proc[p].lk = 0 /\ proc[p].tl = 0
  /\ fe.pc = "done" => ~fe.dh

====
